---- MODULE Spec2Model ----
(***************************************************************************)
(* Model of the Logos citation plugin's two text pipelines:                *)
(*   - the Bible verse linker   (utils/bible-linker.ts, linkBibleVerses)   *)
(*   - the clipboard parser     (utils/clipboard-parser.ts)                *)
(* Texts are TLA+ strings; a JavaScript index k (0-based) addresses the    *)
(* character SubSeq(s, k+1, k+1).  Regular expressions are modelled by     *)
(* matchers that follow the backtracking order of the JavaScript engine.   *)
(* The en dash U+2013 is written "~" (module text is ASCII).               *)
(***************************************************************************)
EXTENDS Integers, Sequences, FiniteSets, TLC

VARIABLES
    pc,             \* position of the modelled call: "input", "scan", "done"
    ntok,           \* number of tokens typed into the input so far
    text,           \* linkBibleVerses: argument text
    version,        \* linkBibleVerses: argument version
    lastBookCode,   \* linkBibleVerses: local lastBookCode
    lastChapter,    \* linkBibleVerses: local lastChapter
    finalResult,    \* linkBibleVerses: local finalResult
    lastIndex,      \* linkBibleVerses: local lastIndex
    match,          \* linkBibleVerses: local match (result of the last exec)
    earlierBook,    \* history: lastBookCode at the return of the call before this one
    pastes,         \* number of paste commands run so far
    pastePc,        \* handlePasteCitationReference: position of each run
    pasteFile,      \* handlePasteCitationReference: view.file of each run
    pasteClipboard, \* what the system clipboard holds for each run: plain text and HTML
    pasteParsed,    \* handlePasteCitationReference: mainText, citation, page, reflyLink
    blockId,        \* handlePasteCitationReference: blockId of each run
    refNote,        \* appendCitationToFile: refNote of each run
    notices,        \* the Notices shown
    editorContent,  \* the text of each note in its editor
    citationCounters, \* this.settings.citationCounters
    savedCounters,  \* citationCounters in the saved plugin data
    vaultFiles,     \* the reference files of the vault: path -> content
    cpc,            \* position of the modelled parser call: "idle", "resolved", "split",
                    \* "cleaned", "paged", "returned"
    ctok,           \* number of tokens copied into the clipboard so far
    clipboard,      \* parseLogosClipboard: argument clipboard (the argument of the other calls)
    preferredFormat, \* parseLogosClipboard: argument preferredFormat
    trimmed,        \* parseLogosClipboard: local trimmed
    reflyLink,      \* parseLogosClipboard: local reflyLink
    format,         \* parseLogosClipboard: local format
    mainText,       \* parseLogosClipboard: local mainText
    citationText,   \* parseLogosClipboard: local citationText
    pageFromText,   \* parseLogosClipboard: local pageFromText
    ret             \* what the last call of a parser function handed back

linkVars == <<text, version, lastBookCode, lastChapter, finalResult, lastIndex, match>>
linkState == <<pc, ntok, earlierBook, linkVars>>
clipState == <<cpc, ctok, clipboard, preferredFormat, trimmed, reflyLink, format, mainText,
               citationText, pageFromText, ret>>
pasteState == <<pastes, pastePc, pasteFile, pasteClipboard, pasteParsed, blockId, refNote, notices,
                editorContent, citationCounters, savedCounters, vaultFiles>>
vars == <<linkState, clipState, pasteState>>

(***************************************************************************)
(* Bounds of the model.                                                    *)
(***************************************************************************)
MaxTokens == 3      \* number of tokens an input text is assembled from
MaxClipTokens == 2  \* number of tokens a clipboard content is assembled from
MaxFormattedLen == 8 \* length of a text handed to cleanFormattedText
MaxFields == 3      \* number of fields of a BibTeX entry handed to parseBibtex
MaxPastes == 2      \* number of runs of the paste command

(***************************************************************************)
(* JavaScript values and string primitives.                                *)
(***************************************************************************)
Null == "<null>"            \* JavaScript null
Undef == "<undefined>"      \* JavaScript undefined (an unmatched group)
EnDash == "~"               \* U+2013

CharAt(s, k) == IF k >= 0 /\ k < Len(s) THEN SubSeq(s, k + 1, k + 1) ELSE ""
Substring(s, a, b) == SubSeq(s, a + 1, b)
SubstringFrom(s, a) == SubSeq(s, a + 1, Len(s))

UpperSeq == "ABCDEFGHIJKLMNOPQRSTUVWXYZ"
LowerSeq == "abcdefghijklmnopqrstuvwxyz"
Upper ==
    {"A", "B", "C", "D", "E", "F", "G", "H", "I", "J", "K", "L", "M", "N", "O", "P", "Q",
     "R", "S", "T", "U", "V", "W", "X", "Y", "Z"}
Lower ==
    {"a", "b", "c", "d", "e", "f", "g", "h", "i", "j", "k", "l", "m", "n", "o", "p", "q",
     "r", "s", "t", "u", "v", "w", "x", "y", "z"}
Digit ==
    {"0", "1", "2", "3", "4", "5", "6", "7", "8", "9"}
White == {" ", "\t", "\n", "\r"}                 \* \s
AlNum ==     \* [A-Za-z0-9]
    {"A", "B", "C", "D", "E", "F", "G", "H", "I", "J", "K", "L", "M", "N", "O", "P", "Q",
     "R", "S", "T", "U", "V", "W", "X", "Y", "Z", "a", "b", "c", "d", "e", "f", "g", "h",
     "i", "j", "k", "l", "m", "n", "o", "p", "q", "r", "s", "t", "u", "v", "w", "x", "y",
     "z", "0", "1", "2", "3", "4", "5", "6", "7", "8", "9"}
WordCh ==    \* \w
    {"A", "B", "C", "D", "E", "F", "G", "H", "I", "J", "K", "L", "M", "N", "O", "P", "Q",
     "R", "S", "T", "U", "V", "W", "X", "Y", "Z", "a", "b", "c", "d", "e", "f", "g", "h",
     "i", "j", "k", "l", "m", "n", "o", "p", "q", "r", "s", "t", "u", "v", "w", "x", "y",
     "z", "0", "1", "2", "3", "4", "5", "6", "7", "8", "9", "_"}
Dash == {"-", EnDash}                              \* [-~]

IsIn(s, k, C) == k >= 0 /\ k < Len(s) /\ CharAt(s, k) \in C

\* End of the maximal run of characters of class C starting at index k
\* (a greedy C* that is never given back).
RECURSIVE RunEnd(_, _, _)
RunEnd(s, k, C) == IF IsIn(s, k, C) THEN RunEnd(s, k + 1, C) ELSE k

\* \b at index k
WordBoundary(s, k) == IsIn(s, k - 1, WordCh) # IsIn(s, k, WordCh)

ToLowerChar(c) ==
    IF c \in Upper
    THEN CharAt(LowerSeq, CHOOSE i \in 0..25 : CharAt(UpperSeq, i) = c)
    ELSE c

RECURSIVE ToLowerCase(_)
ToLowerCase(s) ==
    IF s = "" THEN "" ELSE ToLowerChar(CharAt(s, 0)) \o ToLowerCase(SubstringFrom(s, 1))

\* s.replace(/\s+/g, '')
RECURSIVE RemoveWhite(_)
RemoveWhite(s) ==
    IF s = "" THEN ""
    ELSE (IF CharAt(s, 0) \in White THEN "" ELSE CharAt(s, 0)) \o RemoveWhite(SubstringFrom(s, 1))

\* s.trim()
RECURSIVE TrimEnd(_)
TrimEnd(s) ==
    IF s # "" /\ CharAt(s, Len(s) - 1) \in White THEN TrimEnd(Substring(s, 0, Len(s) - 1)) ELSE s
Trim(s) == TrimEnd(SubstringFrom(s, RunEnd(s, 0, White)))

StartsWith(s, p) == Len(s) >= Len(p) /\ Substring(s, 0, Len(p)) = p

\* s.indexOf(p, from), -1 when absent
RECURSIVE IndexOfFrom(_, _, _)
IndexOfFrom(s, p, from) ==
    IF from + Len(p) > Len(s) THEN -1
    ELSE IF Substring(s, from, from + Len(p)) = p THEN from
    ELSE IndexOfFrom(s, p, from + 1)
IndexOf(s, p) == IndexOfFrom(s, p, 0)
Includes(s, p) == IndexOf(s, p) # -1

(***************************************************************************)
(* constants/bible-books: the two lookup tables the linker imports.        *)
(***************************************************************************)
BIBLE_BOOKS ==
    [k \in {"gen", "genesis", "ex", "deut", "prov", "john", "jn", "1john", "1jn", "2kings",
            "isa", "isaiah", "1sa"} |->
        CASE k = "gen" -> "Ge"
          [] k = "genesis" -> "Ge"
          [] k = "ex" -> "Ex"
          [] k = "deut" -> "Dt"
          [] k = "prov" -> "Pr"
          [] k = "john" -> "Jn"
          [] k = "jn" -> "Jn"
          [] k = "1john" -> "1Jn"
          [] k = "1jn" -> "1Jn"
          [] k = "2kings" -> "2Ki"
          [] k = "isa" -> "Is"
          [] k = "isaiah" -> "Is"
          [] k = "1sa" -> "1Sa"]

VERSION_MAPPING ==
    [k \in {"esv", "nasb", "niv", "lsb"} |->
        CASE k = "esv" -> "esv"
          [] k = "nasb" -> "nasb95"
          [] k = "niv" -> "niv2011"
          [] k = "lsb" -> "lgcystndrdbblsb"]

\* table[key], undefined when the key is absent
Lookup(table, key) == IF key \in DOMAIN table THEN table[key] ELSE Undef
Truthy(v) == v # Undef /\ v # Null /\ v # ""

(***************************************************************************)
(* combinedRegex of linkBibleVerses, as a backtracking matcher.            *)
(* A match record carries: kind (which alternative matched, 0 = null),     *)
(* index (match.index), end (combinedRegex.lastIndex after the match),     *)
(* g0 (match[0]) and the groups of the alternative that matched:           *)
(*   kind 1: prefix = match[1], book = match[2], chapter/verse/endVerse =  *)
(*           match[3..5]                                                   *)
(*   kind 2: sep = match[6],  chapter/verse/endVerse = match[7..9]         *)
(*   kind 3: sep = match[10], chapter/verse/endVerse = match[11..13]       *)
(*   kind 4: sep = match[14], verse/endVerse = match[15..16]               *)
(***************************************************************************)
NoMatch ==
    [kind |-> 0, index |-> -1, end |-> -1, g0 |-> "", prefix |-> Undef, book |-> Undef,
     sep |-> Undef, chapter |-> Undef, verse |-> Undef, endVerse |-> Undef]

\* The first of two match attempts that succeeds (the second is only
\* looked at when the first fails).
OrElse(a, b) == IF a.kind # 0 THEN a ELSE b

\* (\d+)(?:\s*[-~]\s*(\d+))?\b  at index p
VerseTail(s, p) ==
    LET v1 == RunEnd(s, p, Digit)
        d0 == RunEnd(s, v1, White)
        e0 == RunEnd(s, d0 + 1, White)
        e1 == RunEnd(s, e0, Digit)
    IN  IF v1 = p THEN [ok |-> FALSE, verse |-> Undef, endVerse |-> Undef, end |-> p]
        ELSE IF IsIn(s, d0, Dash) /\ e1 > e0 /\ ~IsIn(s, e1, WordCh)
             THEN [ok |-> TRUE, verse |-> Substring(s, p, v1),
                   endVerse |-> Substring(s, e0, e1), end |-> e1]
        ELSE IF ~IsIn(s, v1, WordCh)
             THEN [ok |-> TRUE, verse |-> Substring(s, p, v1), endVerse |-> Undef, end |-> v1]
        ELSE [ok |-> FALSE, verse |-> Undef, endVerse |-> Undef, end |-> p]

\* (\d+):(\d+)(?:\s*[-~]\s*(\d+))?\b  at index p; c1 is the end of the chapter
\* digits and t the verse part behind the colon.
ChapterVerseWith(s, p, c1, t) ==
    IF c1 > p /\ CharAt(s, c1) = ":" /\ t.ok
    THEN [ok |-> TRUE, chapter |-> Substring(s, p, c1), verse |-> t.verse,
          endVerse |-> t.endVerse, end |-> t.end]
    ELSE [ok |-> FALSE, chapter |-> Undef, verse |-> Undef, endVerse |-> Undef, end |-> p]

ChapterVerseTail(s, p) ==
    ChapterVerseWith(s, p, RunEnd(s, p, Digit), VerseTail(s, RunEnd(s, p, Digit) + 1))

\* ([A-Z][a-z]+)\.?\s+(\d+):(\d+)(?:...)?\b  at index b; l1 is the end of the
\* book name, d1 the index behind the optional period, w1 the end of the white
\* space and t the chapter:verse part.
BookRestWith(s, b, l1, d1, w1, t) ==
    IF IsIn(s, b, Upper) /\ l1 > b + 1 /\ w1 > d1 /\ t.ok
    THEN [ok |-> TRUE, book |-> Substring(s, b, l1), chapter |-> t.chapter,
          verse |-> t.verse, endVerse |-> t.endVerse, end |-> t.end]
    ELSE [ok |-> FALSE, book |-> Undef, chapter |-> Undef, verse |-> Undef,
          endVerse |-> Undef, end |-> b]

BookRest(s, b) ==
    LET l1 == RunEnd(s, b + 1, Lower)
        d1 == IF CharAt(s, l1) = "." THEN l1 + 1 ELSE l1
        w1 == RunEnd(s, d1, White)
    IN  BookRestWith(s, b, l1, d1, w1, ChapterVerseTail(s, w1))

\* Lengths of (?:[123]|I{1,3}) at index i, in the order the engine tries them;
\* 0 stands for the optional prefix group being skipped.
PrefixLengths(s, i) ==
    IF CharAt(s, i) \in {"1", "2", "3"} THEN <<1, 0>>
    ELSE IF RunEnd(s, i, {"I"}) - i >= 3 THEN <<3, 2, 1, 0>>
    ELSE IF RunEnd(s, i, {"I"}) - i = 2 THEN <<2, 1, 0>>
    ELSE IF RunEnd(s, i, {"I"}) - i = 1 THEN <<1, 0>>
    ELSE <<0>>

\* Index where the book name starts behind a prefix of length n at index i.
BookStart(s, i, n) == IF n = 0 THEN i ELSE RunEnd(s, i + n, White)

\* Alternative 1 with prefix length n, the rest of the pattern having matched as r.
Alt1With(s, i, n, r) ==
    IF r.ok
    THEN [kind |-> 1, index |-> i, end |-> r.end, g0 |-> Substring(s, i, r.end),
          prefix |-> IF n = 0 THEN Undef ELSE Substring(s, i, BookStart(s, i, n)),
          book |-> r.book, sep |-> Undef,
          chapter |-> r.chapter, verse |-> r.verse, endVerse |-> r.endVerse]
    ELSE NoMatch

\* The prefix lengths cands[j..] tried in order.
RECURSIVE Alt1Try(_, _, _, _)
Alt1Try(s, i, cands, j) ==
    IF j > Len(cands) THEN NoMatch
    ELSE OrElse(Alt1With(s, i, cands[j], BookRest(s, BookStart(s, i, cands[j]))),
                Alt1Try(s, i, cands, j + 1))

\* Alternative 1: \b((?:[123]|I{1,3})\s*)?([A-Z][a-z]+)\.?\s+(\d+):(\d+)(?:\s*[-~]\s*(\d+))?\b
Alt1(s, i) ==
    IF WordBoundary(s, i) THEN Alt1Try(s, i, PrefixLengths(s, i), 1) ELSE NoMatch

\* Alternative 2: ([;,(])\s*(\d+):(\d+)(?:\s*[-~]\s*(\d+))?\b
Alt2With(s, i, t) ==
    IF IsIn(s, i, {";", ",", "("}) /\ t.ok
    THEN [kind |-> 2, index |-> i, end |-> t.end, g0 |-> Substring(s, i, t.end),
          prefix |-> Undef, book |-> Undef, sep |-> CharAt(s, i),
          chapter |-> t.chapter, verse |-> t.verse, endVerse |-> t.endVerse]
    ELSE NoMatch

Alt2(s, i) == Alt2With(s, i, ChapterVerseTail(s, RunEnd(s, i + 1, White)))

\* Alternative 3: (?:^|[^A-Za-z0-9])([ \t]+|)(\d+):(\d+)(?:\s*[-~]\s*(\d+))?\b
\* tried from `from`, the index behind the (?:^|[^A-Za-z0-9]) part; w is the
\* end of the [ \t] run and t the chapter:verse part.
Alt3With(s, i, from, w, t) ==
    IF t.ok
    THEN [kind |-> 3, index |-> i, end |-> t.end, g0 |-> Substring(s, i, t.end),
          prefix |-> Undef, book |-> Undef, sep |-> Substring(s, from, w),
          chapter |-> t.chapter, verse |-> t.verse, endVerse |-> t.endVerse]
    ELSE NoMatch

Alt3From(s, i, from) ==
    Alt3With(s, i, from, RunEnd(s, from, {" ", "\t"}),
             ChapterVerseTail(s, RunEnd(s, from, {" ", "\t"})))

Alt3(s, i) ==
    OrElse(IF i = 0 THEN Alt3From(s, i, i) ELSE NoMatch,
           IF i < Len(s) /\ ~IsIn(s, i, AlNum) THEN Alt3From(s, i, i + 1) ELSE NoMatch)

\* Alternative 4: ([,])\s*(\d+)(?:\s*[-~]\s*(\d+))?\b
Alt4With(s, i, t) ==
    IF IsIn(s, i, {","}) /\ t.ok
    THEN [kind |-> 4, index |-> i, end |-> t.end, g0 |-> Substring(s, i, t.end),
          prefix |-> Undef, book |-> Undef, sep |-> CharAt(s, i),
          chapter |-> Undef, verse |-> t.verse, endVerse |-> t.endVerse]
    ELSE NoMatch

Alt4(s, i) == Alt4With(s, i, VerseTail(s, RunEnd(s, i + 1, White)))

\* The alternation at one index: the first alternative that matches there.
MatchAt(s, i) == OrElse(Alt1(s, i), OrElse(Alt2(s, i), OrElse(Alt3(s, i), Alt4(s, i))))

\* combinedRegex.exec(text) with combinedRegex.lastIndex = from:
\* the match at the smallest index >= from, or null.
RECURSIVE Exec(_, _)
Exec(s, from) ==
    IF from > Len(s) THEN NoMatch ELSE OrElse(MatchAt(s, from), Exec(s, from + 1))

(***************************************************************************)
(* linkBibleVerses(text, version)                                          *)
(***************************************************************************)
\* Mutant: the table is consulted without version.toLowerCase().
getLogosVersionCodeCaseSensitive(v) ==
    LET mapped == Lookup(VERSION_MAPPING, v)
    IN  IF Truthy(mapped) THEN mapped ELSE v

getLogosVersionCode(v) ==
    LET mapped == Lookup(VERSION_MAPPING, ToLowerCase(v))
    IN  IF Truthy(mapped) THEN mapped ELSE v

\* normalizedBook.replace(/^iii/, '3').replace(/^ii/, '2').replace(/^i/, '1')
RomanToDigit(nb) ==
    LET a == IF StartsWith(nb, "iii") THEN "3" \o SubstringFrom(nb, 3) ELSE nb
        b == IF StartsWith(a, "ii") THEN "2" \o SubstringFrom(a, 2) ELSE a
    IN  IF StartsWith(b, "i") THEN "1" \o SubstringFrom(b, 1) ELSE b

\* BIBLE_BOOKS[normalizedBook] for a full-reference match m
BookCodeOf(m) ==
    LET raw == RemoveWhite(ToLowerCase((IF Truthy(m.prefix) THEN m.prefix ELSE "") \o m.book))
        normalizedBook == IF ~Truthy(Lookup(BIBLE_BOOKS, raw)) THEN RomanToDigit(raw) ELSE raw
    IN  Lookup(BIBLE_BOOKS, normalizedBook)

\* `${code}${chapter}.${verse}` or `${code}${chapter}.${verse}-${endVerse}`
RefOf(code, chapter, verse, endVerse) ==
    IF Truthy(endVerse) THEN code \o chapter \o "." \o verse \o "-" \o endVerse
    ELSE code \o chapter \o "." \o verse

\* `[${label}](https://ref.ly/${ref};${logosVersion})`
LinkOf(label, ref, logosVersion) ==
    "[" \o label \o "](https://ref.ly/" \o ref \o ";" \o logosVersion \o ")"

\* String.prototype.substring clamps its arguments to 0..length
JsSubstring(s, a, b) ==
    LET lo == IF a < 0 THEN 0 ELSE IF a > Len(s) THEN Len(s) ELSE a
        hi == IF b < 0 THEN 0 ELSE IF b > Len(s) THEN Len(s) ELSE b
    IN  IF lo <= hi THEN Substring(s, lo, hi) ELSE Substring(s, hi, lo)

\* The branch conditions of the loop body, after `if (match[2])`.
\* Mutant: a sequential reference is linked without a book in scope.
SequentialFiresWithoutBook(m, book) == m.kind = 2

SequentialFires(m, book) == m.kind = 2 /\ Truthy(book)              \* match[6] && lastBookCode
BareFires(m, book) == m.kind = 3 /\ Truthy(book)                    \* match[10] !== undefined && lastBookCode
VerseOnlyFires(m, book, chapter) ==                                 \* match[14] && lastBookCode && lastChapter
    m.kind = 4 /\ Truthy(book) /\ Truthy(chapter)

\* Mutant: a space is put behind every separator.
spacingAlways(separator) == " "

\* const spacing = separator === '(' ? '' : ' '
spacing(separator) == IF separator = "(" THEN "" ELSE " "

\* What one iteration of the while loop appends for the match m, after the
\* text between lastIndex and the match.
Emitted(m, book, chapter, logosVersion) ==
    IF m.kind = 1 THEN
        IF Truthy(BookCodeOf(m))
        THEN LinkOf(m.g0, RefOf(BookCodeOf(m), m.chapter, m.verse, m.endVerse), logosVersion)
        ELSE m.g0
    ELSE IF SequentialFires(m, book) THEN
        m.sep \o spacing(m.sep)
              \o LinkOf(Trim(SubstringFrom(m.g0, Len(m.sep))),
                        RefOf(book, m.chapter, m.verse, m.endVerse), logosVersion)
    ELSE IF BareFires(m, book) THEN
        LET cvString == IF Truthy(m.endVerse)
                        THEN m.chapter \o ":" \o m.verse \o EnDash \o m.endVerse
                        ELSE m.chapter \o ":" \o m.verse
            rawCvStringFallback == IF Truthy(m.endVerse)
                        THEN m.chapter \o ":" \o m.verse \o "-" \o m.endVerse
                        ELSE m.chapter \o ":" \o m.verse
            matchTextIndex == IF IndexOf(m.g0, cvString) # -1 THEN IndexOf(m.g0, cvString)
                              ELSE IndexOf(m.g0, rawCvStringFallback)
        IN  JsSubstring(m.g0, 0, matchTextIndex)
              \o LinkOf(Trim(JsSubstring(m.g0, matchTextIndex, Len(m.g0))),
                        RefOf(book, m.chapter, m.verse, m.endVerse), logosVersion)
    ELSE IF VerseOnlyFires(m, book, chapter) THEN
        m.sep \o spacing(m.sep)
              \o LinkOf(Trim(SubstringFrom(m.g0, Len(m.sep))),
                        RefOf(book, chapter, m.verse, m.endVerse), logosVersion)
    ELSE m.g0

\* Mutant: the first resolved book is kept when a later one resolves.
NextBookKeepsFirst(m, book) ==
    IF m.kind = 1
    THEN (IF Truthy(BookCodeOf(m)) THEN (IF Truthy(book) THEN book ELSE BookCodeOf(m)) ELSE Null)
    ELSE book

\* Mutant: an unresolved full reference leaves the carried book in place.
NextBookNoReset(m, book) ==
    IF m.kind = 1 /\ Truthy(BookCodeOf(m)) THEN BookCodeOf(m) ELSE book

\* lastBookCode after the iteration for match m
NextBook(m, book) ==
    IF m.kind = 1 THEN (IF Truthy(BookCodeOf(m)) THEN BookCodeOf(m) ELSE Null) ELSE book

\* Mutant: only a full reference sets the carried chapter.
NextChapterFullOnly(m, book, chapter) ==
    IF m.kind = 1 THEN (IF Truthy(BookCodeOf(m)) THEN m.chapter ELSE Null) ELSE chapter

\* Mutant: a chapter:verse match sets the carried chapter without a book.
NextChapterWithoutBook(m, book, chapter) ==
    IF m.kind = 1 THEN (IF Truthy(BookCodeOf(m)) THEN m.chapter ELSE Null)
    ELSE IF m.kind \in {2, 3} THEN m.chapter
    ELSE chapter

\* lastChapter after the iteration for match m
NextChapter(m, book, chapter) ==
    IF m.kind = 1 THEN (IF Truthy(BookCodeOf(m)) THEN m.chapter ELSE Null)
    ELSE IF SequentialFires(m, book) \/ BareFires(m, book) THEN m.chapter
    ELSE chapter

\* The pieces input texts are assembled from.
LinkTokens ==
    {"Isa 2:3", " I Jn. 1:9", " At 9:30", "; 4:5", "(4:2", ", 13", "; 13", " 6:7",
     " and", "~9"}
Versions == {"esv", "NASB", "KJV"}

InitLink ==
    /\ pc = "input"
    /\ ntok = 0
    /\ text = ""
    /\ version = "esv"
    /\ lastBookCode = Null
    /\ lastChapter = Null
    /\ finalResult = ""
    /\ lastIndex = 0
    /\ match = NoMatch
    /\ earlierBook = Null

\* The caller assembles the text argument.
TypeToken(tok) ==
    /\ pc = "input"
    /\ ntok < MaxTokens
    /\ text' = text \o tok
    /\ ntok' = ntok + 1
    /\ UNCHANGED <<pc, version, lastBookCode, lastChapter, finalResult, lastIndex, match,
                   earlierBook, clipState, pasteState>>

\* Mutant: lastBookCode and lastChapter are kept from the call before.
CallLinkKeepsBook(v) ==
    /\ pc = "input"
    /\ pc' = "scan"
    /\ version' = v
    /\ finalResult' = ""
    /\ lastIndex' = 0
    /\ match' = NoMatch
    /\ UNCHANGED <<ntok, text, lastBookCode, lastChapter, earlierBook, clipState, pasteState>>

\* Entry of linkBibleVerses: the locals are initialised.
CallLink(v) ==
    /\ pc = "input"
    /\ pc' = "scan"
    /\ version' = v
    /\ lastBookCode' = Null
    /\ lastChapter' = Null
    /\ finalResult' = ""
    /\ lastIndex' = 0
    /\ match' = NoMatch
    /\ UNCHANGED <<ntok, text, earlierBook, clipState, pasteState>>

\* The loop body for the match m.
LoopBody(m) ==
    /\ m.kind # 0
    /\ match' = m
    /\ finalResult' = finalResult \o Substring(text, lastIndex, m.index)
                         \o Emitted(m, lastBookCode, lastChapter, getLogosVersionCode(version))
    /\ lastBookCode' = NextBook(m, lastBookCode)
    /\ lastChapter' = NextChapter(m, lastBookCode, lastChapter)
    /\ lastIndex' = m.end

\* One iteration of `while ((match = combinedRegex.exec(text)) !== null)`.
LoopIter ==
    /\ pc = "scan"
    /\ LoopBody(Exec(text, lastIndex))
    /\ UNCHANGED <<pc, ntok, text, version, earlierBook, clipState, pasteState>>

\* exec returned null: the tail is appended and the function returns.
ReturnLink ==
    /\ pc = "scan"
    /\ Exec(text, lastIndex).kind = 0
    /\ match' = NoMatch
    /\ finalResult' = finalResult \o SubstringFrom(text, lastIndex)
    /\ pc' = "done"
    /\ UNCHANGED <<ntok, text, version, lastBookCode, lastChapter, lastIndex, earlierBook,
                   clipState, pasteState>>

NextLink ==
    \/ \E tok \in LinkTokens : TypeToken(tok)
    \/ \E v \in Versions : CallLink(v)
    \/ LoopIter
    \/ ReturnLink

\* What a scan of txt hands back that is at index `from` with the book and
\* chapter given, m being the next match.
RECURSIVE ScanFrom(_, _, _, _, _)
ScanWith(txt, v, from, book, chapter, m) ==
    IF m.kind = 0 THEN SubstringFrom(txt, from)
    ELSE Substring(txt, from, m.index) \o Emitted(m, book, chapter, getLogosVersionCode(v))
             \o ScanFrom(txt, v, m.end, NextBook(m, book), NextChapter(m, book, chapter))
ScanFrom(txt, v, from, book, chapter) == ScanWith(txt, v, from, book, chapter, Exec(txt, from))
\* The output of a call that starts with nothing in scope.
FreshOutput(txt, v) == ScanFrom(txt, v, 0, Null, Null)

\* The caller goes on to its next call of linkBibleVerses and assembles a new
\* text.  Nothing of the finished call is touched: what its locals held is
\* still there when the next call begins.
NextInput ==
    /\ pc = "done"
    /\ pc' = "input"
    /\ text' = ""
    /\ earlierBook' = lastBookCode
    /\ UNCHANGED <<ntok, version, lastBookCode, lastChapter, finalResult, lastIndex, match,
                   clipState, pasteState>>

\* Calls of linkBibleVerses in sequence.
NextCalls == NextLink \/ NextInput

(***************************************************************************)
(* Regular expressions of the clipboard parser.                            *)
(* A pattern without groups is a sequence of items: a character class      *)
(* (a set of characters, possibly negated) with a quantifier "1", "?",     *)
(* "*" or "+", or the anchor "$".  Matching advances a set of positions    *)
(* through the items, so a pattern matches from i exactly when the         *)
(* backtracking engine finds a match starting at i.                         *)
(***************************************************************************)
Ch(C) == [neg |-> FALSE, set |-> C, q |-> "1"]
Not(C) == [neg |-> TRUE, set |-> C, q |-> "1"]
Opt(it) == [it EXCEPT !.q = "?"]
Star(it) == [it EXCEPT !.q = "*"]
Plus(it) == [it EXCEPT !.q = "+"]
EndOfInput == [neg |-> FALSE, set |-> {}, q |-> "$"]
Dot == Not({"\n", "\r"})

ToUpperChar(c) ==
    IF c \in Lower
    THEN CharAt(UpperSeq, CHOOSE i \in 0..25 : CharAt(LowerSeq, i) = c)
    ELSE c

\* A literal, and a literal under the flag i.
Lit(str) == [k \in 1..Len(str) |-> Ch({CharAt(str, k - 1)})]
LitI(str) ==
    [k \in 1..Len(str) |-> Ch({ToLowerChar(CharAt(str, k - 1)), ToUpperChar(CharAt(str, k - 1))})]
Year4 == <<Ch(Digit), Ch(Digit), Ch(Digit), Ch(Digit)>>        \* \d{4}

Accepts(it, c) == (c \in it.set) # it.neg

\* The positions reached from P by one character of the item's class.
One(s, it, P) == {p + 1 : p \in {x \in P : x < Len(s) /\ Accepts(it, CharAt(s, x))}}

\* End of the maximal run of characters of the item's class starting at index p.
RECURSIVE ClassRunEnd(_, _, _)
ClassRunEnd(s, it, p) ==
    IF p < Len(s) /\ Accepts(it, CharAt(s, p)) THEN ClassRunEnd(s, it, p + 1) ELSE p

\* The positions reached from P by any number of characters of the class.
Closure(s, it, P) == UNION {p..ClassRunEnd(s, it, p) : p \in P}

Advance(s, it, P) ==
    IF it.q = "1" THEN One(s, it, P)
    ELSE IF it.q = "?" THEN P \cup One(s, it, P)
    ELSE IF it.q = "*" THEN Closure(s, it, P)
    ELSE IF it.q = "+" THEN Closure(s, it, One(s, it, P))
    ELSE P \cap {Len(s)}

RECURSIVE Ends(_, _, _, _)
Ends(s, re, k, P) ==
    IF k > Len(re) \/ P = {} THEN P ELSE Ends(s, re, k + 1, Advance(s, re[k], P))

\* The ends of the matches of re that start at index i.
MatchEnds(re, s, i) == Ends(s, re, 1, {i})
\* The indices a match of re starts at.
Starts(re, s) == {i \in 0..Len(s) : MatchEnds(re, s, i) # {}}
\* re.test(s)
Test(re, s) == Ends(s, re, 1, 0..Len(s)) # {}

Min(S) == CHOOSE x \in S : \A y \in S : x <= y
Max(S) == CHOOSE x \in S : \A y \in S : x >= y

(***************************************************************************)
(* detectCitationFormat                                                    *)
(***************************************************************************)
\* @\w+\{
BibtexMarkerRe == <<Ch({"@"}), Plus(Ch(WordCh)), Ch({"{"})>>
\* \[[*_][^\]]+[*_]\]\([^)]+\)
MarkdownLinkRe ==
    <<Ch({"["}), Ch({"*", "_"}), Plus(Not({"]"})), Ch({"*", "_"}), Ch({"]"}), Ch({"("}),
      Plus(Not({")"})), Ch({")"})>>
\* \([^)]*:\s*[^,)]+,\s*\d{4}\)
MdChicagoPlaceRe ==
    <<Ch({"("}), Star(Not({")"})), Ch({":"}), Star(Ch(White)), Plus(Not({",", ")"})),
      Ch({","}), Star(Ch(White))>> \o Year4 \o <<Ch({")"})>>
\* ,\s*\d{4}\)\.$
MdChicagoYearRe == <<Ch({","}), Star(Ch(White))>> \o Year4 \o <<Ch({")"}), Ch({"."}), EndOfInput>>
\* \]\([^)]+\)\.\s+[^,]+,\s*\d{4}\.?\s*$
MdMlaRe ==
    <<Ch({"]"}), Ch({"("}), Plus(Not({")"})), Ch({")"}), Ch({"."}), Plus(Ch(White)),
      Plus(Not({","})), Ch({","}), Star(Ch(White))>> \o Year4
      \o <<Opt(Ch({"."})), Star(Ch(White)), EndOfInput>>
\* \(\d{4}\)\.\s*\[
MdApaRe == <<Ch({"("})>> \o Year4 \o <<Ch({")"}), Ch({"."}), Star(Ch(White)), Ch({"["})>>
\* [A-Z][a-z]+,\s+[A-Z]\.\s*[A-Z]?\.\s*\(\d{4}\)
ApaRe ==
    <<Ch(Upper), Plus(Ch(Lower)), Ch({","}), Plus(Ch(White)), Ch(Upper), Ch({"."}),
      Star(Ch(White)), Opt(Ch(Upper)), Ch({"."}), Star(Ch(White)), Ch({"("})>>
      \o Year4 \o <<Ch({")"})>>
\* [A-Z][a-z]+,?\s+[A-Z]
AuthorStartRe == <<Ch(Upper), Plus(Ch(Lower)), Opt(Ch({","})), Plus(Ch(White)), Ch(Upper)>>
\* [A-Z][a-z]+,?\s+[A-Z].*?\.\s+.*?\.\s+.*?:\s*[^.]+,?\s*\d{4}
ChicagoRe ==
    AuthorStartRe
      \o <<Star(Dot), Ch({"."}), Plus(Ch(White)), Star(Dot), Ch({"."}), Plus(Ch(White)),
           Star(Dot), Ch({":"}), Star(Ch(White)), Plus(Not({"."})), Opt(Ch({","})),
           Star(Ch(White))>> \o Year4
\* [A-Z][a-z]+,?\s+[A-Z].*?\.\s+.*?\.\s+.*,\s+\d{4}
MlaRe ==
    AuthorStartRe
      \o <<Star(Dot), Ch({"."}), Plus(Ch(White)), Star(Dot), Ch({"."}), Plus(Ch(White)),
           Star(Dot), Ch({","}), Plus(Ch(White))>> \o Year4

\* /^@\w+\{/.test(trimmed) || /\s@\w+\{/.test(trimmed)
HasBibtexMarker(tr) ==
    \/ MatchEnds(BibtexMarkerRe, tr, 0) # {}
    \/ Test(<<Ch(White)>> \o BibtexMarkerRe, tr)

hasMarkdownLink(tr) == Test(MarkdownLinkRe, tr)

\* The rules inside `if (hasMarkdownLink)`; Null when the block falls through.
MarkdownRule(tr) ==
    IF Test(MdChicagoPlaceRe, tr) \/ Test(MdChicagoYearRe, tr) THEN "chicago"
    ELSE IF Test(MdMlaRe, tr) THEN "mla"
    ELSE IF Test(MdApaRe, tr) THEN "apa"
    ELSE Null

\* Mutant: the MLA pattern is tested before the Chicago pattern.
PlainRuleMlaFirst(tr) ==
    IF Test(ApaRe, tr) THEN "apa"
    ELSE IF Test(MlaRe, tr) THEN "mla"
    ELSE IF Test(ChicagoRe, tr) THEN "chicago"
    ELSE "bibtex"

\* The standard rules and the default.
PlainRule(tr) ==
    IF Test(ApaRe, tr) THEN "apa"
    ELSE IF Test(ChicagoRe, tr) THEN "chicago"
    ELSE IF Test(MlaRe, tr) THEN "mla"
    ELSE "bibtex"

\* Mutant: the markdown block ends in the default instead of falling through.
DetectTrimmedNoFallThrough(tr) ==
    IF HasBibtexMarker(tr) THEN "bibtex"
    ELSE IF hasMarkdownLink(tr)
         THEN (IF MarkdownRule(tr) # Null THEN MarkdownRule(tr) ELSE "bibtex")
    ELSE PlainRule(tr)

DetectTrimmed(tr) ==
    IF HasBibtexMarker(tr) THEN "bibtex"
    ELSE IF hasMarkdownLink(tr) /\ MarkdownRule(tr) # Null THEN MarkdownRule(tr)
    ELSE PlainRule(tr)

detectCitationFormat(txt) == DetectTrimmed(Trim(txt))

(***************************************************************************)
(* extractCiteKey, extractPageNumber, parseBibtex and the other parsers    *)
(***************************************************************************)
\* /^@\w+\{([^,]+),/ : the index of the comma that ends group 1, -1 without a match.
CiteKeyComma(bibtex) ==
    IF /\ CharAt(bibtex, 0) = "@"
       /\ RunEnd(bibtex, 1, WordCh) > 1
       /\ CharAt(bibtex, RunEnd(bibtex, 1, WordCh)) = "{"
       /\ IndexOfFrom(bibtex, ",", RunEnd(bibtex, 1, WordCh) + 1) > RunEnd(bibtex, 1, WordCh) + 1
    THEN IndexOfFrom(bibtex, ",", RunEnd(bibtex, 1, WordCh) + 1)
    ELSE -1

\* Group 1 of that match.
CiteKeyGroup(bibtex) ==
    Substring(bibtex, RunEnd(bibtex, 1, WordCh) + 1, CiteKeyComma(bibtex))

\* .replace(/[_\W]+/g, '-')
RECURSIVE ReplaceNonWord(_)
ReplaceNonWord(s) ==
    IF s = "" THEN ""
    ELSE IF IsIn(s, 0, AlNum) THEN CharAt(s, 0) \o ReplaceNonWord(SubstringFrom(s, 1))
    ELSE "-" \o ReplaceNonWord(SubstringFrom(s, ClassRunEnd(s, Not(AlNum), 0)))

\* .replace(/-+/g, '-')
RECURSIVE CollapseHyphens(_)
CollapseHyphens(s) ==
    IF s = "" THEN ""
    ELSE IF CharAt(s, 0) = "-" THEN "-" \o CollapseHyphens(SubstringFrom(s, RunEnd(s, 0, {"-"})))
    ELSE CharAt(s, 0) \o CollapseHyphens(SubstringFrom(s, 1))

\* .replace(/^-|-$/g, '')
StripHyphens(s) ==
    Substring(s, IF CharAt(s, 0) = "-" THEN 1 ELSE 0,
              IF Len(s) > 1 /\ CharAt(s, Len(s) - 1) = "-" THEN Len(s) - 1 ELSE Len(s))

SanitizeCiteKey(key) == StripHyphens(CollapseHyphens(ReplaceNonWord(key)))

\* What a call hands back: a value, or an Error that was thrown.
Returned(fn, v) == [fn |-> fn, raised |-> FALSE, value |-> v]
Thrown(fn, message) == [fn |-> fn, raised |-> TRUE, value |-> message]
NotCalled == [fn |-> Null, raised |-> FALSE, value |-> Null]

\* Mutant: a missing key gives 'unknown' instead of an Error.
extractCiteKeyLenient(bibtex) ==
    IF CiteKeyComma(bibtex) = -1
    THEN Returned("extractCiteKey", "unknown")
    ELSE Returned("extractCiteKey", SanitizeCiteKey(CiteKeyGroup(bibtex)))

extractCiteKey(bibtex) ==
    IF CiteKeyComma(bibtex) = -1
    THEN Thrown("extractCiteKey", "Could not extract cite key")
    ELSE Returned("extractCiteKey", SanitizeCiteKey(CiteKeyGroup(bibtex)))

\* pageRegex = /[([ ,]?(p{1,2}\.? ?\d+([~-]\d+)?)[)\]]?\.?$/i, without and with
\* the optional group 2.
\* Mutant: the period behind p or pp is required.
PageHeadReWithPeriod ==
    <<Opt(Ch({"(", "[", " ", ","})), Ch({"p", "P"}), Opt(Ch({"p", "P"})), Ch({"."}),
      Opt(Ch({" "})), Plus(Ch(Digit))>>

PageHeadRe ==
    <<Opt(Ch({"(", "[", " ", ","})), Ch({"p", "P"}), Opt(Ch({"p", "P"})), Opt(Ch({"."})),
      Opt(Ch({" "})), Plus(Ch(Digit))>>
PageTailRe == <<Opt(Ch({")", "]"})), Opt(Ch({"."})), EndOfInput>>
PageStarts(s) ==
    Starts(PageHeadRe \o PageTailRe, s)
        \cup Starts(PageHeadRe \o <<Ch(Dash), Plus(Ch(Digit))>> \o PageTailRe, s)

\* Group 1 of the match that starts at i: it begins behind the optional
\* leading character and ends with the last digit.
PageGroupStart(s, i) == IF IsIn(s, i, {"(", "[", " ", ","}) THEN i + 1 ELSE i
PageTailStart(s) ==
    IF IsIn(s, Len(s) - 1, {"."})
    THEN (IF IsIn(s, Len(s) - 2, {")", "]"}) THEN Len(s) - 2 ELSE Len(s) - 1)
    ELSE (IF IsIn(s, Len(s) - 1, {")", "]"}) THEN Len(s) - 1 ELSE Len(s))

extractPageNumber(txt) ==
    LET starts == PageStarts(txt)
    IN  IF starts # {}
        THEN [cleanedText |-> Trim(Substring(txt, 0, Min(starts))),
              page |-> Substring(txt, PageGroupStart(txt, Min(starts)), PageTailStart(txt))]
        ELSE [cleanedText |-> Trim(txt), page |-> Null]

\* name\s*=\s*\{([^}]+)\} under the flag i
BraceFieldRe(name) ==
    LitI(name) \o <<Star(Ch(White)), Ch({"="}), Star(Ch(White)), Ch({"{"}), Plus(Not({"}"})),
                    Ch({"}"})>>
\* The index of the opening brace when the field name starts at i.
FieldBrace(s, i, name) == RunEnd(s, RunEnd(s, i + Len(name), White) + 1, White)
\* The patterns of the fields parseBibtex reads.
FieldRe ==
    [name \in {"author", "pages", "title", "url", "journal", "booktitle", "series"} |->
        BraceFieldRe(name)]
\* Group 1 of s.match(/name\s*=\s*\{([^}]+)\}/i), Null without a match.
BraceField(s, name) ==
    LET starts == Starts(FieldRe[name], s)
    IN  IF starts = {} THEN Null
        ELSE Substring(s, FieldBrace(s, Min(starts), name) + 1,
                       IndexOfFrom(s, "}", FieldBrace(s, Min(starts), name) + 1))

\* year\s*=\s*\{?(\d{4})\}? under the flag i
YearFieldRe ==
    LitI("year") \o <<Star(Ch(White)), Ch({"="}), Star(Ch(White)), Opt(Ch({"{"}))>> \o Year4
        \o <<Opt(Ch({"}"}))>>
YearDigits(s, i) ==
    IF CharAt(s, FieldBrace(s, i, "year")) = "{"
    THEN FieldBrace(s, i, "year") + 1
    ELSE FieldBrace(s, i, "year")
\* Group 1 of s.match(/year\s*=\s*\{?(\d{4})\}?/i), Null without a match.
YearField(s) ==
    LET starts == Starts(YearFieldRe, s)
    IN  IF starts = {} THEN Null
        ELSE Substring(s, YearDigits(s, Min(starts)), YearDigits(s, Min(starts)) + 4)

\* \[((?:title|journal|booktitle|series)\s*=\s*\{)([^}]+)(\})\]\(([^)]+)\) under the flags gi
LinkedFieldNames == {"title", "journal", "booktitle", "series"}
LinkedFieldRes ==
    [name \in LinkedFieldNames |->
        <<Ch({"["})>> \o BraceFieldRe(name)
            \o <<Ch({"]"}), Ch({"("}), Plus(Not({")"})), Ch({")"})>>]
LinkedFieldName(s, i) ==
    CHOOSE name \in LinkedFieldNames : MatchEnds(LinkedFieldRes[name], s, i) # {}
\* The rewritten match that starts at i with the opening brace at b:
\* `${fieldPrefix}[${fieldValue}](${linkUrl})${closingBrace}`.
LinkedFieldRewrite(s, i, b) ==
    Substring(s, i + 1, b + 1) \o "["
        \o Substring(s, b + 1, IndexOfFrom(s, "}", b + 1)) \o "]("
        \o Substring(s, IndexOfFrom(s, "}", b + 1) + 3,
                     IndexOfFrom(s, ")", IndexOfFrom(s, "}", b + 1) + 3))
        \o ")}"
LinkedFieldEnd(s, b) == IndexOfFrom(s, ")", IndexOfFrom(s, "}", b + 1) + 3) + 1
LinkedFieldStarts(s, from) ==
    {i \in from..Len(s) :
        \E name \in LinkedFieldNames : MatchEnds(LinkedFieldRes[name], s, i) # {}}

\* The first statement of parseBibtex: every linked field from index `from` on
\* is rewritten to field={[value](url)}.
RECURSIVE NormalizeLinkedFields(_, _)
NormalizeLinkedFields(s, from) ==
    LET starts == LinkedFieldStarts(s, from)
        i == Min(starts)
        b == FieldBrace(s, i + 1, LinkedFieldName(s, i))
    IN  IF starts = {} THEN SubstringFrom(s, from)
        ELSE Substring(s, from, i) \o LinkedFieldRewrite(s, i, b)
                 \o NormalizeLinkedFields(s, LinkedFieldEnd(s, b))

\* s.replace(/\s+/g, '-')
RECURSIVE WhiteToHyphen(_)
WhiteToHyphen(s) ==
    IF s = "" THEN ""
    ELSE IF IsIn(s, 0, White) THEN "-" \o WhiteToHyphen(SubstringFrom(s, RunEnd(s, 0, White)))
    ELSE CharAt(s, 0) \o WhiteToHyphen(SubstringFrom(s, 1))

LineTerminator == {"\n", "\r"}     \* what `.` does not match

\* s.replace(/d(.*?)d/g, open + '$1' + close) for a delimiter d: the
\* leftmost d that has another d behind it on the same line opens a match,
\* the nearest such d closes it, and the search goes on behind the match.
RECURSIVE ReplaceDelimited(_, _, _, _)
ReplaceDelimited(s, d, open, close) ==
    LET p == IndexOf(s, d)
        q == IF p = -1 THEN -1 ELSE IndexOfFrom(s, d, p + Len(d))
    IN  IF q = -1 THEN s
        ELSE IF \E k \in (p + Len(d))..(q - 1) : IsIn(s, k, LineTerminator)
        THEN Substring(s, 0, p + 1) \o ReplaceDelimited(SubstringFrom(s, p + 1), d, open, close)
        ELSE Substring(s, 0, p) \o open \o Substring(s, p + Len(d), q) \o close
                 \o ReplaceDelimited(SubstringFrom(s, q + Len(d)), d, open, close)

\* The same replace without the flag g: the first match only.
RECURSIVE ReplaceDelimitedOnce(_, _, _, _)
ReplaceDelimitedOnce(s, d, open, close) ==
    LET p == IndexOf(s, d)
        q == IF p = -1 THEN -1 ELSE IndexOfFrom(s, d, p + Len(d))
    IN  IF q = -1 THEN s
        ELSE IF \E k \in (p + Len(d))..(q - 1) : IsIn(s, k, LineTerminator)
        THEN Substring(s, 0, p + 1) \o ReplaceDelimitedOnce(SubstringFrom(s, p + 1), d, open, close)
        ELSE Substring(s, 0, p) \o open \o Substring(s, p + Len(d), q) \o close
                 \o SubstringFrom(s, q + Len(d))

\* Mutant: each of the two rules rewrites its first match only.
cleanFormattedTextOnce(s) ==
    IF s = "" THEN s
    ELSE ReplaceDelimitedOnce(ReplaceDelimitedOnce(s, "__", "<sup>", "</sup>"), "_", "*", "*")

\* cleanFormattedText(text), lines 659-669
cleanFormattedText(s) ==
    IF s = "" THEN s
    ELSE ReplaceDelimited(ReplaceDelimited(s, "__", "<sup>", "</sup>"), "_", "*", "*")

\* s.split(',')[0]
BeforeComma(s) == IF Includes(s, ",") THEN Substring(s, 0, IndexOf(s, ",")) ELSE s

\* citeKey of parseBibtex for the key of the entry (or 'unknown') and the
\* author and year groups.
FinalCiteKey(citeKey, author, year) ==
    IF citeKey = "unknown" /\ author # Null /\ year # Null
    THEN WhiteToHyphen(ToLowerCase(Trim(BeforeComma(author)))) \o "-" \o year
    ELSE citeKey

BibtexCiteKey(bibtex) ==
    SanitizeCiteKey(IF CiteKeyComma(bibtex) = -1 THEN "unknown" ELSE CiteKeyGroup(bibtex))

\* \[([^\]]+)\]\(([^)]+)\)
LinkRe ==
    <<Ch({"["}), Plus(Not({"]"})), Ch({"]"}), Ch({"("}), Plus(Not({")"})), Ch({")"})>>

\* titleSourceField, lines 111-115
TitleSourceField(bibtex) ==
    IF BraceField(bibtex, "journal") # Null THEN "journal"
    ELSE IF BraceField(bibtex, "booktitle") # Null THEN "booktitle"
    ELSE IF BraceField(bibtex, "series") # Null THEN "series"
    ELSE IF BraceField(bibtex, "title") # Null THEN "title"
    ELSE Null

\* rawTitleValue, lines 106-110
RawTitleValue(bibtex) ==
    IF BraceField(bibtex, "journal") # Null THEN BraceField(bibtex, "journal")
    ELSE IF BraceField(bibtex, "booktitle") # Null THEN BraceField(bibtex, "booktitle")
    ELSE IF BraceField(bibtex, "series") # Null THEN BraceField(bibtex, "series")
    ELSE IF BraceField(bibtex, "title") # Null THEN BraceField(bibtex, "title")
    ELSE Null

\* embeddedLinkMatch[2] for a value that matches /\[([^\]]+)\]\(([^)]+)\)/
EmbeddedLinkUrl(value) ==
    LET close == IndexOfFrom(value, "]", Min(Starts(LinkRe, value)) + 1)
    IN  Substring(value, close + 2, IndexOfFrom(value, ")", close + 2))

\* The condition of line 128, reached when the title holds no markdown link.
TitleIsWrapped(value, urlValue) ==
    /\ value # Null
    /\ ~Test(LinkRe, value)
    /\ urlValue # Null
    /\ ~Includes(value, "](")

\* title after lines 117-140
BibtexTitle(value, urlValue) ==
    IF TitleIsWrapped(value, urlValue) THEN "[" \o value \o "](" \o urlValue \o ")" ELSE value

\* Mutant: the url of an embedded link replaces the url field.
BibtexUrlLinkWins(value, urlValue) ==
    IF value # Null /\ Test(LinkRe, value) THEN EmbeddedLinkUrl(value) ELSE urlValue

\* url after lines 118-126
BibtexUrl(value, urlValue) ==
    IF value # Null /\ Test(LinkRe, value) /\ urlValue = Null THEN EmbeddedLinkUrl(value)
    ELSE urlValue

\* Mutant: the text is returned as it came in.
BibtexRawCitationKept(bibtex, field, value, urlValue) == bibtex

\* bibtex after lines 132-138: the first `field = {value}` is replaced by
\* `field={title}`.  The pattern built at line 135 matches first where the
\* pattern of the field matched first.
BibtexRawCitation(bibtex, field, value, urlValue) ==
    IF TitleIsWrapped(value, urlValue)
    THEN LET i == Min(Starts(FieldRe[field], bibtex))
         IN  Substring(bibtex, 0, i) \o field \o "={" \o BibtexTitle(value, urlValue) \o "}"
                 \o SubstringFrom(bibtex, IndexOfFrom(bibtex, "}", FieldBrace(bibtex, i, field) + 1) + 1)
    ELSE bibtex

\* t.replace(/\[([^\]]+)\]\([^)]+\)/g, '$1')
RECURSIVE Unlink(_)
Unlink(t) ==
    IF ~Test(LinkRe, t) THEN t
    ELSE LET i == Min(Starts(LinkRe, t))
             close == IndexOfFrom(t, "]", i + 1)
         IN  Substring(t, 0, i) \o Substring(t, i + 1, close)
                 \o Unlink(SubstringFrom(t, IndexOfFrom(t, ")", close + 2) + 1))

\* t.replace(/[[\]]/g, '')
RECURSIVE RemoveBrackets(_)
RemoveBrackets(t) ==
    IF t = "" THEN ""
    ELSE (IF CharAt(t, 0) \in {"[", "]"} THEN "" ELSE CharAt(t, 0))
             \o RemoveBrackets(SubstringFrom(t, 1))

\* cleanedTitle, line 143
CleanedTitle(title) == IF title = Null THEN Null ELSE RemoveBrackets(Unlink(title))

\* parseBibtex after its first statement.  The record holds the fields
\* format, citeKey, author, title, cleanedTitle, year, pages, url and
\* rawCitation of the ParsedCitation.
ParseNormalizedBibtex(bibtex) ==
    [format |-> "bibtex",
     citeKey |-> FinalCiteKey(BibtexCiteKey(bibtex), BraceField(bibtex, "author"), YearField(bibtex)),
     author |-> BraceField(bibtex, "author"),
     title |-> BibtexTitle(RawTitleValue(bibtex), BraceField(bibtex, "url")),
     cleanedTitle |-> CleanedTitle(BibtexTitle(RawTitleValue(bibtex), BraceField(bibtex, "url"))),
     year |-> YearField(bibtex),
     pages |-> BraceField(bibtex, "pages"),
     url |-> BibtexUrl(RawTitleValue(bibtex), BraceField(bibtex, "url")),
     rawCitation |-> BibtexRawCitation(bibtex, TitleSourceField(bibtex), RawTitleValue(bibtex),
                                       BraceField(bibtex, "url"))]

parseBibtex(bibtex) == ParseNormalizedBibtex(NormalizeLinkedFields(bibtex, 0))

\* text.trim().split('\n').join(' ').trim()
RECURSIVE NewlinesToSpaces(_)
NewlinesToSpaces(s) ==
    IF s = "" THEN ""
    ELSE (IF CharAt(s, 0) = "\n" THEN " " ELSE CharAt(s, 0)) \o NewlinesToSpaces(SubstringFrom(s, 1))
JoinedCitation(txt) == Trim(NewlinesToSpaces(Trim(txt)))

\* s.replace(/c?\s*$/, '') for a character c: trailing whitespace goes, and
\* one c in front of it.
StripEnd(s, c) ==
    LET t == TrimEnd(s)
    IN  IF t # "" /\ CharAt(t, Len(t) - 1) = c THEN Substring(t, 0, Len(t) - 1) ELSE t

\* titleRegex = /[_*"]([^_*"]+)[_*"]/
TitleRe == <<Ch({"_", "*", "\""}), Plus(Not({"_", "*", "\""})), Ch({"_", "*", "\""})>>

\* Group (\d{4}) of the first match of the pattern head tail in s, head ending
\* with the group; Null without a match.
YearGroup(head, tail, s) ==
    LET starts == Starts(head \o tail, s)
        e == CHOOSE e \in MatchEnds(head, s, Min(starts)) : MatchEnds(tail, s, e) # {}
    IN  IF starts = {} THEN Null ELSE Substring(s, e - 4, e)

\* a || b for two match results
OrMatch(a, b) == IF a # Null THEN a ELSE b

\* Group 1 of citation.match(/^(.+?)\.(?=\s+[A-Z][A-Za-z\d]+(?!\.))/) ||
\* citation.match(/^([^.]+)\./), Null when neither matches.
FallbackAuthor(c) ==
    LET word == <<Plus(Ch(White)), Ch(Upper), Plus(Ch(AlNum))>>
        ahead(k) == \E e \in MatchEnds(word, c, k) : CharAt(c, e) # "."
        ks == {k \in 1..ClassRunEnd(c, Dot, 0) : CharAt(c, k) = "." /\ ahead(k + 1)}
    IN  IF ks # {} THEN Substring(c, 0, Min(ks))
        ELSE IF IndexOf(c, ".") >= 1 THEN Substring(c, 0, IndexOf(c, "."))
        ELSE Null

\* author and year of parseMLA for the joined citation c (lines 184-243)
MlaAuthorYear(c) ==
    IF hasMarkdownLink(c)
    THEN LET beforeLink == Substring(c, 0, IndexOf(c, "["))
             afterLink == SubstringFrom(c, IndexOf(c, ")") + 1)
             r == ClassRunEnd(beforeLink, Not({"."}), 0)
             w == RunEnd(beforeLink, r + 1, White)
             end == IF CharAt(beforeLink, r) = "." /\ IsIn(beforeLink, w, Upper)
                       /\ CharAt(beforeLink, w + 1) = "."
                    THEN w + 2 ELSE r
         IN  [author |-> IF r = 0 THEN Null
                         ELSE Trim(StripEnd(Substring(beforeLink, 0, end), ",")),
              year |-> YearGroup(<<Ch({"."}), Star(Ch(White)), Plus(Not({","})), Ch({","}),
                                   Star(Ch(White))>> \o Year4, <<>>, afterLink)]
    ELSE IF Test(TitleRe, c)
    THEN LET titleStart == Min(Starts(TitleRe, c))
             afterTitle == Trim(SubstringFrom(c, Max(MatchEnds(TitleRe, c, titleStart))))
         IN  [author |-> Trim(StripEnd(Substring(c, 0, titleStart), ".")),
              year |-> YearGroup(Year4, <<Opt(Ch({"."})), EndOfInput>>, afterTitle)]
    ELSE [author |-> IF FallbackAuthor(c) = Null THEN Null ELSE Trim(FallbackAuthor(c)),
          year |-> OrMatch(YearGroup(Year4, <<Opt(Ch({".", ","})), EndOfInput>>, c),
                           YearGroup(Year4, <<>>, c))]

\* citeKey of parseMLA (lines 246-248)
MlaCiteKey(author, year) ==
    IF Truthy(author) /\ Truthy(year)
    THEN WhiteToHyphen(ToLowerCase(BeforeComma(author))) \o "-" \o year
    ELSE "unknown"

\* author and year of parseAPA for the joined citation c (lines 279-318)
ApaAuthorYear(c) ==
    [author |-> IF IndexOf(c, "(") > 0
                THEN LET b == Substring(c, 0, IndexOf(c, "("))
                     IN  Trim(IF CharAt(b, Len(b) - 1) = "," THEN Substring(b, 0, Len(b) - 1) ELSE b)
                ELSE Null,
     year |-> YearGroup(<<Ch({"("})>> \o Year4, <<Ch({")"})>>, c)]

\* author and year of parseChicago for the joined citation c (lines 378-460)
ChicagoAuthorYear(c) ==
    IF Test(LinkRe, c)
    THEN [author |-> Trim(StripEnd(Substring(c, 0, IndexOf(c, "[")), ",")),
          year |-> OrMatch(YearGroup(<<Ch({","}), Star(Ch(White))>> \o Year4, <<Ch({")"})>>, c),
                           YearGroup(<<Ch({","}), Star(Ch(White))>> \o Year4,
                                     <<Opt(Ch({"."})), Star(Ch(White)), EndOfInput>>, c))]
    ELSE IF Test(TitleRe, c)
    THEN LET titleStart == Min(Starts(TitleRe, c))
             afterTitle == Trim(SubstringFrom(c, Max(MatchEnds(TitleRe, c, titleStart))))
         IN  [author |-> Trim(StripEnd(Substring(c, 0, titleStart), ".")),
              year |-> YearGroup(<<Ch({","}), Star(Ch(White))>> \o Year4,
                                 <<Opt(Ch({"."})), EndOfInput>>, afterTitle)]
    ELSE [author |-> LET cuts == {k \in 0..(Len(c) - 1) : CharAt(c, k) = "." /\ IsIn(c, k + 1, White)}
                     IN  IF FallbackAuthor(c) # Null THEN Trim(FallbackAuthor(c))
                         ELSE IF cuts = {} THEN Trim(c)
                         ELSE Trim(Substring(c, 0, Min(cuts))),
          year |-> OrMatch(YearGroup(<<Ch({","}), Star(Ch(White))>> \o Year4,
                                     <<Opt(Ch({".", ","})), EndOfInput>>, c),
                           YearGroup(Year4, <<>>, c))]

\* The text in front of the first '&', ',' or "and": author.split(/[&,]|and/)[0]
FirstAuthor(author) ==
    LET cuts == {k \in 0..(Len(author) - 1) :
                    \/ IsIn(author, k, {"&", ","})
                    \/ k + 3 <= Len(author) /\ Substring(author, k, k + 3) = "and"}
    IN  IF cuts = {} THEN author ELSE Substring(author, 0, Min(cuts))

\* s.replace(/[^\w]/g, '')
RECURSIVE KeepWordChars(_)
KeepWordChars(s) ==
    IF s = "" THEN ""
    ELSE (IF IsIn(s, 0, WordCh) THEN CharAt(s, 0) ELSE "") \o KeepWordChars(SubstringFrom(s, 1))

\* citeKey of parseAPA and parseChicago (lines 341-347, 464-469)
LastNameCiteKey(author, year) ==
    IF Truthy(author) /\ Truthy(year)
    THEN LET firstAuthor == Trim(FirstAuthor(author))
             whites == {k \in 0..(Len(firstAuthor) - 1) : IsIn(firstAuthor, k, White)}
             last == IF whites = {} THEN firstAuthor
                     ELSE SubstringFrom(firstAuthor, Max(whites) + 1)
             lastName == KeepWordChars(ToLowerCase(last))
         IN  (IF lastName = "" THEN "unknown" ELSE lastName) \o "-" \o year
    ELSE "unknown"

\* parseMLA, parseAPA, parseChicago: the fields format, citeKey, author, year,
\* pages and rawCitation of the ParsedCitation.
parseMLA(txt) ==
    LET citation == JoinedCitation(txt)
        ay == MlaAuthorYear(citation)
    IN  [format |-> "mla", citeKey |-> MlaCiteKey(ay.author, ay.year), author |-> ay.author,
         year |-> ay.year, pages |-> Null, rawCitation |-> citation]
parseAPA(txt) ==
    LET citation == JoinedCitation(txt)
        ay == ApaAuthorYear(citation)
    IN  [format |-> "apa", citeKey |-> LastNameCiteKey(ay.author, ay.year), author |-> ay.author,
         year |-> ay.year, pages |-> Null, rawCitation |-> citation]
parseChicago(txt) ==
    LET citation == JoinedCitation(txt)
        ay == ChicagoAuthorYear(citation)
    IN  [format |-> "chicago", citeKey |-> LastNameCiteKey(ay.author, ay.year),
         author |-> ay.author, year |-> ay.year, pages |-> Null, rawCitation |-> citation]

(***************************************************************************)
(* parseLogosClipboard(clipboard, preferredFormat)                         *)
(***************************************************************************)
\* https?:\/\/ref\.ly\/[^\s)}]+
ReflyRe ==
    Lit("http") \o <<Opt(Ch({"s"}))>> \o Lit("://ref.ly/") \o <<Plus(Not(White \cup {")", "}"}))>>

\* .replace(/[\\.,;!]+$/, '')
RECURSIVE StripTrailingPunctuation(_)
StripTrailingPunctuation(s) ==
    IF IsIn(s, Len(s) - 1, {"\\", ".", ",", ";", "!"})
    THEN StripTrailingPunctuation(Substring(s, 0, Len(s) - 1))
    ELSE s

\* Lines 499-506: reflyLink
ReflyLinkOf(tr) ==
    LET starts == Starts(ReflyRe, tr)
    IN  IF starts = {} THEN Null
        ELSE StripTrailingPunctuation(
                 Substring(tr, Min(starts), Max(MatchEnds(ReflyRe, tr, Min(starts)))))

PreferredFormats == {"auto", "bibtex", "mla", "apa", "chicago"}

\* Mutant: the preferred format is ignored.
ResolveFormatDetectOnly(preferred, tr) == detectCitationFormat(tr)

\* Line 509: format
ResolveFormat(preferred, tr) ==
    IF preferred = "auto" THEN detectCitationFormat(tr) ELSE preferred

\* The indices where /\s+(?=@[\w]+{)/ matches from.
SplitStarts(tr) ==
    {q \in 0..Len(tr) :
        /\ IsIn(tr, q, White)
        /\ MatchEnds(BibtexMarkerRe, tr, RunEnd(tr, q, White)) # {}}

\* parts[1] of the split whose first separator starts at q: it ends at the
\* next separator.
SecondPart(tr, q, later) ==
    IF later = {} THEN SubstringFrom(tr, RunEnd(tr, q, White))
    ELSE Substring(tr, RunEnd(tr, q, White), Min(later))

\* Lines 515-524
SplitBibtex(tr) ==
    LET starts == SplitStarts(tr)
    IN  IF starts # {}
        THEN [mainText |-> Trim(Substring(tr, 0, Min(starts))),
              citationText |->
                  Trim(SecondPart(tr, Min(starts),
                                  {q \in starts : q >= RunEnd(tr, Min(starts), White)}))]
        ELSE IF ~StartsWith(tr, "@")
        THEN [mainText |-> tr, citationText |-> ""]
        ELSE [mainText |-> "", citationText |-> tr]

\* s.split(/\r?\n/)
DropCarriageReturn(s) ==
    IF s # "" /\ CharAt(s, Len(s) - 1) = "\r" THEN Substring(s, 0, Len(s) - 1) ELSE s
RECURSIVE SplitLines(_)
SplitLines(s) ==
    IF ~Includes(s, "\n") THEN <<s>>
    ELSE <<DropCarriageReturn(Substring(s, 0, IndexOf(s, "\n")))>>
             \o SplitLines(SubstringFrom(s, IndexOf(s, "\n") + 1))

\* lines.slice(a, b).join('\n') with 0-based a and exclusive b
RECURSIVE JoinLines(_, _, _)
JoinLines(lines, a, b) ==
    IF a >= b THEN ""
    ELSE IF a + 1 = b THEN lines[a + 1]
    ELSE lines[a + 1] \o "\n" \o JoinLines(lines, a + 1, b)

\* Lines 547-550
looksLikeCitation(fmt, line) ==
    \/ fmt = "apa" /\ Test(<<Ch({"("})>> \o Year4 \o <<Ch({")"})>>, line)
    \/ /\ fmt \in {"mla", "chicago"}
       /\ Test(AuthorStartRe, line)
       /\ (Includes(line, ".") \/ Includes(line, "_") \/ Includes(line, "*"))

\* Lines 533-559: the value of citationStartIndex behind the loop, the loop
\* being at line index i with the value start.
RECURSIVE CitationStartIndex(_, _, _, _)
CitationStartIndex(fmt, lines, i, start) ==
    IF i < 0 THEN start
    ELSE IF Trim(lines[i + 1]) = ""
         THEN (IF start # -1 THEN start ELSE CitationStartIndex(fmt, lines, i - 1, start))
    ELSE IF looksLikeCitation(fmt, Trim(lines[i + 1]))
         THEN CitationStartIndex(fmt, lines, i - 1, i)
    ELSE IF start # -1 THEN start
    ELSE CitationStartIndex(fmt, lines, i - 1, start)

\* Mutant: the two parts are not trimmed.
SplitByLinesUntrimmed(fmt, tr) ==
    LET lines == SplitLines(tr)
        start == CitationStartIndex(fmt, lines, Len(lines) - 1, -1)
    IN  IF start > 0
        THEN [mainText |-> JoinLines(lines, 0, start),
              citationText |-> JoinLines(lines, start, Len(lines))]
        ELSE [mainText |-> "", citationText |-> tr]

\* Lines 525-565
SplitByLines(fmt, tr) ==
    LET lines == SplitLines(tr)
        start == CitationStartIndex(fmt, lines, Len(lines) - 1, -1)
    IN  IF start > 0
        THEN [mainText |-> Trim(JoinLines(lines, 0, start)),
              citationText |-> Trim(JoinLines(lines, start, Len(lines)))]
        ELSE [mainText |-> "", citationText |-> tr]

\* Lines 511-565: mainText and citationText behind the split.
SplitClipboard(fmt, tr) ==
    IF fmt = "bibtex" THEN SplitBibtex(tr) ELSE SplitByLines(fmt, tr)

\* \s*\(?Resource Link:\s*<link>\)? under the flag i
ResourceLinkRe(link) ==
    <<Star(Ch(White)), Opt(Ch({"("}))>> \o LitI("Resource Link:") \o <<Star(Ch(White))>>
        \o LitI(link) \o <<Opt(Ch({")"}))>>

\* s.replace(re, "") for a pattern whose quantifiers are greedy
RemoveFirst(s, re) ==
    LET starts == Starts(re, s)
    IN  IF starts = {} THEN s
        ELSE Substring(s, 0, Min(starts)) \o SubstringFrom(s, Max(MatchEnds(re, s, Min(starts))))

\* s.replace(p, "") for a string p
RemoveString(s, p) ==
    IF Includes(s, p) THEN Substring(s, 0, IndexOf(s, p)) \o SubstringFrom(s, IndexOf(s, p) + Len(p))
    ELSE s

\* Lines 568-571
CleanMainText(main, link) ==
    IF main # "" /\ link # Null
    THEN Trim(RemoveString(RemoveFirst(main, ResourceLinkRe(link)), link))
    ELSE main

\* `citation: null`, as a record so that it compares with the ParsedCitations.
NullCitation == [format |-> Null]

\* Lines 582-600
ParseCitation(fmt, citation) ==
    IF citation = "" THEN NullCitation
    ELSE IF fmt = "mla" THEN parseMLA(citation)
    ELSE IF fmt = "apa" THEN parseAPA(citation)
    ELSE IF fmt = "chicago" THEN parseChicago(citation)
    ELSE parseBibtex(citation)

\* Mutant: the pages field of the citation goes before the extracted page.
ParsedClipboardPagesFirst(main, parsed, pageText, link) ==
    [mainText |-> Trim(main),
     citation |-> parsed,
     page |-> IF parsed # NullCitation /\ Truthy(parsed.pages) THEN parsed.pages ELSE pageText,
     reflyLink |-> link]

\* Lines 602-607
ParsedClipboardOf(main, parsed, pageText, link) ==
    [mainText |-> Trim(main),
     citation |-> parsed,
     page |-> IF Truthy(pageText) THEN pageText
              ELSE IF parsed # NullCitation THEN parsed.pages ELSE Null,
     reflyLink |-> link]

ClipTokens ==
    {"Grace.\n", "@book{D_o,}", "\n@misc{author={J Do} year=2020}", "@jo",
     "Do, J. T. C: P, 2020", "Do, J. T. P, 2020", "Do, J. D. (2020). T.",
     "Do (2020). [_T_](u).", " P, 2020.", " (C: P, 2020).", ", p. 12",
     " (Resource Link: https://ref.ly/r1)", "\n[series={S}](u)", "\n@a{b,}\n@c{d,}",
     "@m{unknown,author={D_o} year=2020}", " pp 3~4].", "@b{k,pages={7}}",
     " https://ref.ly/r1", "\ntitle={T} url={u}", "Do, J. [_T_](u). P, 2020",
     "\nDo (2020). T.\nIbid", "Rand (2020). T."}

InitClip ==
    /\ cpc = "idle"
    /\ ctok = 0
    /\ clipboard = ""
    /\ preferredFormat = "auto"
    /\ trimmed = ""
    /\ reflyLink = Null
    /\ format = Null
    /\ mainText = ""
    /\ citationText = ""
    /\ pageFromText = Null
    /\ ret = NotCalled

(***************************************************************************)
(* main.ts: the paste command.                                             *)
(***************************************************************************)
\* parseLogosClipboard(clip, preferred), lines 494-608
parseLogosClipboard(clip, preferred) ==
    LET tr == Trim(clip)
        parts == SplitClipboard(ResolveFormat(preferred, tr), tr)
        extracted == IF parts.citationText # "" THEN extractPageNumber(parts.citationText)
                     ELSE [cleanedText |-> parts.citationText, page |-> Null]
    IN  ParsedClipboardOf(CleanMainText(parts.mainText, ReflyLinkOf(tr)),
                          ParseCitation(ResolveFormat(preferred, tr), extracted.cleanedText),
                          extracted.page, ReflyLinkOf(tr))

\* DEFAULT_SETTINGS (types.ts) without citationCounters: the settings the
\* paste command reads.
Settings ==
    [citationFolder |-> "", customCalloutTitle |-> "", autoDetectBibleVerses |-> FALSE,
     bibleTranslation |-> "esv", showFullCitationInCallout |-> TRUE,
     includeReflyLink |-> FALSE, citationFormat |-> "auto"]

Pasters == {1, 2}             \* the runs of the command that can be under way together
Notes == {"A", "B"}           \* file.basename of the notes; file.name is basename.md
NoHtml == "<no text/html>"    \* the clipboard holds no text/html item
ReadFails == "<read fails>"   \* navigator.clipboard.read() rejects
\* What the clipboard holds as plain text, and as markdown of its HTML.
PasteTexts == {"Grace.", "Grace.\n@b{k,}", "Mercy.\n@b{k,title={T}} p. 3"}
Arrow == "->"                 \* U+2192

NoticeNoEditor == "No active editor"
NoticeNoCitation ==
    "Could not find citation in clipboard. Please ensure you copied a valid citation."

\* The clipboard of a run that has not started.
NoClipboard == [plain |-> "", html |-> NoHtml]

\* The locals mainText, citation, page and reflyLink before the clipboard is read.
NotParsed == [mainText |-> "", citation |-> NullCitation, page |-> Null, reflyLink |-> Null]

\* link.replace(/[\\.,;]+$/, ''), line 82
RECURSIVE StripLinkTail(_)
StripLinkTail(link) ==
    IF link # "" /\ CharAt(link, Len(link) - 1) \in {"\\", ".", ",", ";"}
    THEN StripLinkTail(Substring(link, 0, Len(link) - 1))
    ELSE link

\* Mutant: a citation found in the HTML only is not taken.
MergeHtmlPlainCitation(plain, parsedMarkdown) ==
    [mainText |-> parsedMarkdown.mainText,
     citation |-> plain.citation,
     page |-> IF Truthy(plain.page) THEN plain.page
              ELSE IF Truthy(parsedMarkdown.page) THEN parsedMarkdown.page
              ELSE plain.page,
     reflyLink |-> IF plain.reflyLink # Null THEN StripLinkTail(plain.reflyLink)
                   ELSE IF parsedMarkdown.reflyLink # Null
                   THEN StripLinkTail(parsedMarkdown.reflyLink)
                   ELSE Null]

\* Lines 66-83: the locals after the markdown of the HTML item was parsed.
MergeHtml(plain, parsedMarkdown) ==
    LET link == IF plain.reflyLink = Null THEN parsedMarkdown.reflyLink ELSE plain.reflyLink
    IN  [mainText |-> parsedMarkdown.mainText,
         citation |-> IF plain.citation = NullCitation THEN parsedMarkdown.citation
                      ELSE plain.citation,
         page |-> IF Truthy(plain.page) THEN plain.page
                  ELSE IF Truthy(parsedMarkdown.page) THEN parsedMarkdown.page
                  ELSE plain.page,
         reflyLink |-> IF link = Null THEN Null ELSE StripLinkTail(link)]

\* Lines 57-90: the locals after the try statement for what the clipboard holds.
AfterHtml(plain, html) ==
    IF html \in {NoHtml, ReadFails} THEN plain
    ELSE MergeHtml(plain, parseLogosClipboard(html, Settings.citationFormat))

\* sanitizeNoteName(name): name.replace(/[\\/:]/g, '')
RECURSIVE sanitizeNoteName(_)
sanitizeNoteName(name) ==
    IF name = "" THEN ""
    ELSE (IF CharAt(name, 0) \in {"\\", "/", ":"} THEN "" ELSE CharAt(name, 0))
             \o sanitizeNoteName(SubstringFrom(name, 1))

\* noteName, lines 103-107
NoteName(cit) ==
    sanitizeNoteName(IF Truthy(cit.title) THEN cit.title \o " - References" ELSE cit.citeKey)

\* filePath, lines 101 and 109
FilePath(cit) ==
    IF Trim(Settings.citationFolder) # ""
    THEN Trim(Settings.citationFolder) \o "/" \o NoteName(cit) \o ".md"
    ELSE NoteName(cit) \o ".md"

\* `${n}` for a counter n
NumStr(n) == IF n < 10 THEN CharAt("0123456789", n)
             ELSE CharAt("0123456789", n \div 10) \o CharAt("0123456789", n % 10)

\* s.replace(' ', '-'): the first space only
ReplaceFirstSpace(s) ==
    IF Includes(s, " ")
    THEN Substring(s, 0, IndexOf(s, " ")) \o "-" \o SubstringFrom(s, IndexOf(s, " ") + 1)
    ELSE s

\* Mutant: the counter of the note is left out of the block ID.
BlockIdWithoutCounter(cit, n) == ReplaceFirstSpace(cit.citeKey)

\* blockId, line 128, for the counter n of the note
BlockId(cit, n) == ReplaceFirstSpace(cit.citeKey) \o "-" \o NumStr(n)

\* s.split('\n').join('\n> ')
RECURSIVE QuoteLines(_)
QuoteLines(s) ==
    IF s = "" THEN ""
    ELSE (IF CharAt(s, 0) = "\n" THEN "\n> " ELSE CharAt(s, 0)) \o QuoteLines(SubstringFrom(s, 1))

\* pageLabel, lines 117-119
PageLabel(page) ==
    IF Truthy(page)
    THEN ", " \o (IF Includes(page, "-") \/ Includes(page, EnDash) THEN "pp." ELSE "p.")
             \o " " \o page
    ELSE ""

\* resourceLinkText, lines 138-142
ResourceLinkText(link) ==
    IF Settings.includeReflyLink /\ Truthy(link) THEN "[Resource Link](" \o link \o ")" ELSE ""

\* The lines of the callout between the quoted text and the link, lines 144-162
CitationLines(cit, link) ==
    IF Settings.showFullCitationInCallout
    THEN "\n> \n> "
             \o QuoteLines(cit.rawCitation
                              \o (IF ResourceLinkText(link) = "" THEN ""
                                  ELSE IF Includes(cit.rawCitation, "\n")
                                  THEN "\n" \o ResourceLinkText(link)
                                  ELSE " " \o ResourceLinkText(link)))
             \o "\n> "
    ELSE IF ResourceLinkText(link) # "" THEN "\n> \n> " \o ResourceLinkText(link) \o "\n> "
    ELSE ""

\* mainText after lines 99 and 112-115
FormattedMainText(main) ==
    IF Settings.autoDetectBibleVerses
    THEN FreshOutput(cleanFormattedText(main), Settings.bibleTranslation)
    ELSE cleanFormattedText(main)

\* quotedText, lines 132-166, for the locals and the blockId
QuotedText(parsed, id) ==
    "> [!cite] "
        \o (IF Settings.customCalloutTitle # "" THEN Settings.customCalloutTitle
            ELSE "Citation Reference")
        \o "\n> " \o QuoteLines(FormattedMainText(parsed.mainText))
        \o CitationLines(parsed.citation, parsed.reflyLink)
        \o "\n> [[" \o FilePath(parsed.citation) \o "|" \o NoteName(parsed.citation)
        \o PageLabel(parsed.page) \o "]] ^" \o id

\* linkBack, line 193
LinkBack(sourceBasename, id, page) ==
    "[[" \o sourceBasename \o "#^" \o id \o "]]![[" \o sourceBasename \o "#^" \o id \o "]]"
        \o (IF Truthy(page) THEN " " \o Arrow \o " p. " \o page ELSE "")

\* s.replace(/"/g, '\\"')
RECURSIVE EscapeQuotes(_)
EscapeQuotes(s) ==
    IF s = "" THEN ""
    ELSE (IF CharAt(s, 0) = "\"" THEN "\\\"" ELSE CharAt(s, 0)) \o EscapeQuotes(SubstringFrom(s, 1))

\* generateCitationFrontmatter(citation, []) of file-utils.ts for a citation
\* with no publisher
generateCitationFrontmatter(cit) ==
    "---\n"
        \o (IF Truthy(cit.title) THEN "title: \"" \o EscapeQuotes(cit.title) \o "\"\n" ELSE "")
        \o (IF Truthy(cit.author)
            THEN "author: \"" \o EscapeQuotes(cit.author) \o "\"\n"
            ELSE "")
        \o (IF Truthy(cit.year) THEN "year: " \o cit.year \o "\n" ELSE "")
        \o "cite-key: \"" \o cit.citeKey \o "\"\n"
        \o "---\n\n"

\* content, lines 202-211
NewFileContent(cit, link) == generateCitationFrontmatter(cit) \o "## Citations\n\n- " \o link

\* \n#+\s
HeadingRe == <<Ch({"\n"}), Plus(Ch({"#"})), Ch(White)>>

\* The end of group 1 of /## Citations([\s\S]*?)((\n#+\s)|$)/ when the match
\* starts at i: the first heading behind `## Citations`, or the end.
CitationsEnd(note, i) ==
    LET heads == {h \in Starts(HeadingRe, note) : h >= i + 12}
    IN  IF heads = {} THEN Len(note) ELSE Min(heads)

\* updatedContent without the test `!match.includes(linkBack)` of line 236
UpdatedContentAlways(note, link) ==
    IF Includes(note, "## Citations")
    THEN LET i == IndexOf(note, "## Citations")
             e == CitationsEnd(note, i)
             following == IF e = Len(note) THEN ""
                          ELSE Substring(note, e, Max(MatchEnds(HeadingRe, note, e)))
         IN  Substring(note, 0, i) \o "## Citations\n" \o Trim(Substring(note, i + 12, e))
                 \o "\n\n- " \o link \o "\n" \o following
                 \o SubstringFrom(note, e + Len(following))
    ELSE Trim(note) \o "\n\n## Citations\n\n- " \o link

\* updatedContent of appendCitationToFile, lines 227-244
UpdatedContent(note, link) ==
    IF Includes(note, "## Citations")
    THEN LET i == IndexOf(note, "## Citations")
             e == CitationsEnd(note, i)
             following == IF e = Len(note) THEN ""
                          ELSE Substring(note, e, Max(MatchEnds(HeadingRe, note, e)))
             whole == Substring(note, i, e) \o following
         IN  IF ~Includes(whole, link)
             THEN Substring(note, 0, i) \o "## Citations\n" \o Trim(Substring(note, i + 12, e))
                      \o "\n\n- " \o link \o "\n" \o following
                      \o SubstringFrom(note, e + Len(following))
             ELSE note
    ELSE Trim(note) \o "\n\n## Citations\n\n- " \o link

\* The reference files the pasted citations lead to.
RefPaths ==
    {FilePath(parseLogosClipboard(t, Settings.citationFormat).citation) :
        t \in {u \in PasteTexts :
                  parseLogosClipboard(u, Settings.citationFormat).citation # NullCitation}}

InitPaste ==
    /\ pastes = 0
    /\ pastePc = [p \in Pasters |-> "idle"]
    /\ pasteFile = [p \in Pasters |-> Null]
    /\ pasteClipboard = [p \in Pasters |-> NoClipboard]
    /\ pasteParsed = [p \in Pasters |-> NotParsed]
    /\ blockId = [p \in Pasters |-> Null]
    /\ refNote = [p \in Pasters |-> Null]
    /\ notices = <<>>
    /\ editorContent = [n \in Notes |-> ""]
    /\ citationCounters = [n \in Notes |-> 0]
    /\ savedCounters = [n \in Notes |-> 0]
    /\ vaultFiles = [f \in RefPaths |-> Null]

Init == InitLink /\ InitClip /\ InitPaste

\* The clipboard content is assembled.
CopyToken(tok) ==
    /\ cpc = "idle"
    /\ ctok < MaxClipTokens
    /\ clipboard' = clipboard \o tok
    /\ ctok' = ctok + 1
    /\ UNCHANGED <<cpc, preferredFormat, trimmed, reflyLink, format, mainText, citationText,
                   pageFromText, ret, linkState, pasteState>>

\* detectCitationFormat(clipboard)
CallDetect ==
    /\ cpc = "idle"
    /\ cpc' = "returned"
    /\ ret' = Returned("detectCitationFormat", detectCitationFormat(clipboard))
    /\ UNCHANGED <<ctok, clipboard, preferredFormat, trimmed, reflyLink, format, mainText,
                   citationText, pageFromText, linkState, pasteState>>

\* extractCiteKey(clipboard)
CallExtractCiteKey ==
    /\ cpc = "idle"
    /\ cpc' = "returned"
    /\ ret' = extractCiteKey(clipboard)
    /\ UNCHANGED <<ctok, clipboard, preferredFormat, trimmed, reflyLink, format, mainText,
                   citationText, pageFromText, linkState, pasteState>>

\* parseBibtex(clipboard)
CallParseBibtex ==
    /\ cpc = "idle"
    /\ cpc' = "returned"
    /\ ret' = Returned("parseBibtex", parseBibtex(clipboard))
    /\ UNCHANGED <<ctok, clipboard, preferredFormat, trimmed, reflyLink, format, mainText,
                   citationText, pageFromText, linkState, pasteState>>

\* parseMLA(clipboard)
CallParseMLA ==
    /\ cpc = "idle"
    /\ cpc' = "returned"
    /\ ret' = Returned("parseMLA", parseMLA(clipboard))
    /\ UNCHANGED <<ctok, clipboard, preferredFormat, trimmed, reflyLink, format, mainText,
                   citationText, pageFromText, linkState, pasteState>>

\* parseAPA(clipboard)
CallParseAPA ==
    /\ cpc = "idle"
    /\ cpc' = "returned"
    /\ ret' = Returned("parseAPA", parseAPA(clipboard))
    /\ UNCHANGED <<ctok, clipboard, preferredFormat, trimmed, reflyLink, format, mainText,
                   citationText, pageFromText, linkState, pasteState>>

\* parseChicago(clipboard)
CallParseChicago ==
    /\ cpc = "idle"
    /\ cpc' = "returned"
    /\ ret' = Returned("parseChicago", parseChicago(clipboard))
    /\ UNCHANGED <<ctok, clipboard, preferredFormat, trimmed, reflyLink, format, mainText,
                   citationText, pageFromText, linkState, pasteState>>

\* extractPageNumber(clipboard)
CallExtractPageNumber ==
    /\ cpc = "idle"
    /\ cpc' = "returned"
    /\ ret' = Returned("extractPageNumber", extractPageNumber(clipboard))
    /\ UNCHANGED <<ctok, clipboard, preferredFormat, trimmed, reflyLink, format, mainText,
                   citationText, pageFromText, linkState, pasteState>>

\* parseLogosClipboard(clipboard, preferred), lines 495-512
CallParse(preferred) ==
    /\ cpc = "idle"
    /\ cpc' = "resolved"
    /\ preferredFormat' = preferred
    /\ trimmed' = Trim(clipboard)
    /\ reflyLink' = ReflyLinkOf(Trim(clipboard))
    /\ format' = ResolveFormat(preferred, Trim(clipboard))
    /\ mainText' = ""
    /\ citationText' = Trim(clipboard)
    /\ UNCHANGED <<ctok, clipboard, pageFromText, ret, linkState, pasteState>>

\* Lines 514-565: text and citation are split.
SplitStep ==
    /\ cpc = "resolved"
    /\ cpc' = "split"
    /\ LET parts == SplitClipboard(format, trimmed)
       IN  mainText' = parts.mainText /\ citationText' = parts.citationText
    /\ UNCHANGED <<ctok, clipboard, preferredFormat, trimmed, reflyLink, format, pageFromText,
                   ret, linkState, pasteState>>

\* Lines 567-571: the ref.ly link is removed from mainText.
CleanStep ==
    /\ cpc = "split"
    /\ cpc' = "cleaned"
    /\ mainText' = CleanMainText(mainText, reflyLink)
    /\ UNCHANGED <<ctok, clipboard, preferredFormat, trimmed, reflyLink, format, citationText,
                   pageFromText, ret, linkState, pasteState>>

\* Lines 573-579: the page number is taken off the citation text.
PageStep ==
    /\ cpc = "cleaned"
    /\ cpc' = "paged"
    /\ LET extracted == IF citationText # "" THEN extractPageNumber(citationText)
                         ELSE [cleanedText |-> citationText, page |-> Null]
       IN  citationText' = extracted.cleanedText /\ pageFromText' = extracted.page
    /\ UNCHANGED <<ctok, clipboard, preferredFormat, trimmed, reflyLink, format, mainText, ret,
                   linkState, pasteState>>

\* Lines 581-608: the citation is parsed and the result returned.
ReturnParse ==
    /\ cpc = "paged"
    /\ cpc' = "returned"
    /\ ret' = Returned("parseLogosClipboard",
                       ParsedClipboardOf(mainText, ParseCitation(format, citationText),
                                         pageFromText, reflyLink))
    /\ UNCHANGED <<ctok, clipboard, preferredFormat, trimmed, reflyLink, format, mainText,
                   citationText, pageFromText, linkState, pasteState>>

NextClip ==
    \/ \E tok \in ClipTokens : CopyToken(tok)
    \/ CallDetect
    \/ CallExtractCiteKey
    \/ CallParseBibtex
    \/ CallParseMLA
    \/ CallParseAPA
    \/ CallParseChicago
    \/ CallExtractPageNumber
    \/ \E preferred \in PreferredFormats : CallParse(preferred)
    \/ SplitStep
    \/ CleanStep
    \/ PageStep
    \/ ReturnParse

SpecClip == Init /\ [][NextClip]_vars

SpecLink == Init /\ [][NextLink]_vars

SpecCalls == Init /\ [][NextCalls]_vars

(***************************************************************************)
(* cleanFormattedText applied to a text and to its own result.             *)
(***************************************************************************)
FormattedChars == {"_", "a", "\n"}

\* The texts of at most n characters over FormattedChars.
RECURSIVE FormattedTexts(_)
FormattedTexts(n) ==
    IF n = 0 THEN {""}
    ELSE FormattedTexts(n - 1)
             \cup {t \o c : t \in FormattedTexts(n - 1), c \in FormattedChars}

InitFormatted ==
    /\ InitLink
    /\ cpc = "idle"
    /\ ctok = 0
    /\ clipboard \in FormattedTexts(MaxFormattedLen)
    /\ preferredFormat = "auto"
    /\ trimmed = ""
    /\ reflyLink = Null
    /\ format = Null
    /\ mainText = ""
    /\ citationText = ""
    /\ pageFromText = Null
    /\ ret = NotCalled
    /\ InitPaste

\* cleanFormattedText(clipboard)
CallCleanFormattedText ==
    /\ cpc = "idle"
    /\ cpc' = "returned"
    /\ ret' = Returned("cleanFormattedText", cleanFormattedText(clipboard))
    /\ UNCHANGED <<ctok, clipboard, preferredFormat, trimmed, reflyLink, format, mainText,
                   citationText, pageFromText, linkState, pasteState>>

\* cleanFormattedText(r) for the result r of the call before: the result is
\* the text of the new call.
CallCleanFormattedTextAgain ==
    /\ cpc = "returned"
    /\ ret.fn = "cleanFormattedText"
    /\ cpc' = "again"
    /\ clipboard' = ret.value
    /\ ret' = Returned("cleanFormattedText", cleanFormattedText(ret.value))
    /\ UNCHANGED <<ctok, preferredFormat, trimmed, reflyLink, format, mainText, citationText,
                   pageFromText, linkState, pasteState>>

NextFormatted == CallCleanFormattedText \/ CallCleanFormattedTextAgain

SpecFormatted == InitFormatted /\ [][NextFormatted]_vars

(***************************************************************************)
(* parseBibtex applied to entries assembled from fields.                   *)
(***************************************************************************)
BibtexFields ==
    {"journal={J}", "booktitle={B}", "series={S}", "title={T}", "subtitle={Y}", "url={u}",
     "title={[L](v)}", "[series={R}](w)", "title={M](}"}

\* The lists of at most n different fields, each behind a comma.
RECURSIVE FieldLists(_)
FieldLists(n) ==
    IF n = 0 THEN {""}
    ELSE FieldLists(n - 1)
             \cup UNION {{l \o "," \o f : f \in {g \in BibtexFields : ~Includes(l, "," \o g)}} :
                             l \in FieldLists(n - 1)}

BibtexEntries == {"@b{k" \o l \o "}" : l \in FieldLists(MaxFields)}

InitFields ==
    /\ InitLink
    /\ cpc = "idle"
    /\ ctok = 0
    /\ clipboard \in BibtexEntries
    /\ preferredFormat = "auto"
    /\ trimmed = ""
    /\ reflyLink = Null
    /\ format = Null
    /\ mainText = ""
    /\ citationText = ""
    /\ pageFromText = Null
    /\ ret = NotCalled
    /\ InitPaste

NextFields == CallParseBibtex

SpecFields == InitFields /\ [][NextFields]_vars

(***************************************************************************)
(* Runs of handlePasteCitationReference, interleaved at their awaits.      *)
(***************************************************************************)
\* The command is invoked with the view of file f (Null: the view has no
\* file) while the clipboard holds plain and html: lines 45-54, up to the
\* await of readText().
StartPaste(p, f, plain, html) ==
    /\ pastes < MaxPastes
    /\ pastePc[p] \in {"idle", "done", "failed"}
    /\ pastes' = pastes + 1
    /\ pasteFile' = [pasteFile EXCEPT ![p] = f]
    /\ pasteClipboard' = [pasteClipboard EXCEPT ![p] = [plain |-> plain, html |-> html]]
    /\ pasteParsed' = [pasteParsed EXCEPT ![p] = NotParsed]
    /\ blockId' = [blockId EXCEPT ![p] = Null]
    /\ refNote' = [refNote EXCEPT ![p] = Null]
    /\ IF f = Null
       THEN /\ notices' = Append(notices, NoticeNoEditor)
            /\ pastePc' = [pastePc EXCEPT ![p] = "done"]
       ELSE /\ notices' = notices
            /\ pastePc' = [pastePc EXCEPT ![p] = "readText"]
    /\ UNCHANGED <<editorContent, citationCounters, savedCounters, vaultFiles, linkState,
                   clipState>>

\* readText() resolves: lines 54-55, up to the await of read().
ReadTextResolved(p) ==
    /\ pastePc[p] = "readText"
    /\ pastePc' = [pastePc EXCEPT ![p] = "read"]
    /\ pasteParsed' = [pasteParsed EXCEPT
                          ![p] = parseLogosClipboard(pasteClipboard[p].plain,
                                                     Settings.citationFormat)]
    /\ UNCHANGED <<pastes, pasteFile, pasteClipboard, blockId, refNote, notices, editorContent,
                   citationCounters, savedCounters, vaultFiles, linkState, clipState>>

\* readText() rejects (the clipboard cannot be read): the rejection leaves
\* the handler at line 54.
ReadTextRejected(p) ==
    /\ pastePc[p] = "readText"
    /\ pastePc' = [pastePc EXCEPT ![p] = "failed"]
    /\ UNCHANGED <<pastes, pasteFile, pasteClipboard, pasteParsed, blockId, refNote, notices,
                   editorContent, citationCounters, savedCounters, vaultFiles, linkState,
                   clipState>>

\* read() resolves or rejects: lines 58-129, up to the await of
\* saveSettings().
ReadResolved(p) ==
    /\ pastePc[p] = "read"
    /\ pasteParsed' = [pasteParsed EXCEPT ![p] = AfterHtml(pasteParsed[p], pasteClipboard[p].html)]
    /\ IF pasteParsed'[p].citation = NullCitation
       THEN /\ notices' = Append(notices, NoticeNoCitation)
            /\ pastePc' = [pastePc EXCEPT ![p] = "done"]
            /\ UNCHANGED <<blockId, citationCounters>>
       ELSE /\ citationCounters' = [citationCounters EXCEPT ![pasteFile[p]] = @ + 1]
            /\ blockId' = [blockId EXCEPT
                              ![p] = BlockId(pasteParsed'[p].citation,
                                             citationCounters'[pasteFile[p]])]
            /\ pastePc' = [pastePc EXCEPT ![p] = "saveSettings"]
            /\ notices' = notices
    /\ UNCHANGED <<pastes, pasteFile, pasteClipboard, refNote, editorContent, savedCounters,
                   vaultFiles, linkState, clipState>>

\* saveSettings() resolves, the settings being written as they are then:
\* lines 129-175 and 189-195, up to the await of create() or of read().
SaveResolved(p) ==
    /\ pastePc[p] = "saveSettings"
    /\ savedCounters' = citationCounters
    /\ editorContent' = [editorContent EXCEPT
                            ![pasteFile[p]] = @ \o QuotedText(pasteParsed[p], blockId[p]) \o "\n\n"]
    /\ pastePc' = [pastePc EXCEPT
                      ![p] = IF vaultFiles[FilePath(pasteParsed[p].citation)] = Null
                             THEN "create" ELSE "vaultRead"]
    /\ UNCHANGED <<pastes, pasteFile, pasteClipboard, pasteParsed, blockId, refNote, notices,
                   citationCounters, vaultFiles, linkState, clipState>>

\* vault.create(filePath, content) resolves, or rejects because the file
\* exists by now: lines 209-210.
CreateResolved(p) ==
    /\ pastePc[p] = "create"
    /\ IF vaultFiles[FilePath(pasteParsed[p].citation)] # Null
       THEN /\ pastePc' = [pastePc EXCEPT ![p] = "failed"]
            /\ UNCHANGED <<vaultFiles, notices>>
       ELSE /\ pastePc' = [pastePc EXCEPT ![p] = "done"]
            /\ vaultFiles' = [vaultFiles EXCEPT
                                 ![FilePath(pasteParsed[p].citation)] =
                                     NewFileContent(pasteParsed[p].citation,
                                                    LinkBack(pasteFile[p], blockId[p],
                                                             pasteParsed[p].page))]
            /\ notices' = Append(notices, "Created " \o FilePath(pasteParsed[p].citation))
    /\ UNCHANGED <<pastes, pasteFile, pasteClipboard, pasteParsed, blockId, refNote,
                   editorContent, citationCounters, savedCounters, linkState, clipState>>

\* vault.read(abstractFile) resolves: lines 227-244, up to the await of
\* modify().
VaultReadResolved(p) ==
    /\ pastePc[p] = "vaultRead"
    /\ pastePc' = [pastePc EXCEPT ![p] = "modify"]
    /\ refNote' = [refNote EXCEPT ![p] = vaultFiles[FilePath(pasteParsed[p].citation)]]
    /\ UNCHANGED <<pastes, pasteFile, pasteClipboard, pasteParsed, blockId, notices,
                   editorContent, citationCounters, savedCounters, vaultFiles, linkState,
                   clipState>>

\* vault.modify(abstractFile, updatedContent) resolves: line 246.
ModifyResolved(p) ==
    /\ pastePc[p] = "modify"
    /\ pastePc' = [pastePc EXCEPT ![p] = "done"]
    /\ vaultFiles' = [vaultFiles EXCEPT
                         ![FilePath(pasteParsed[p].citation)] =
                             UpdatedContent(refNote[p],
                                            LinkBack(pasteFile[p], blockId[p],
                                                     pasteParsed[p].page))]
    /\ UNCHANGED <<pastes, pasteFile, pasteClipboard, pasteParsed, blockId, refNote, notices,
                   editorContent, citationCounters, savedCounters, linkState, clipState>>

NextPaste ==
    \/ \E p \in Pasters, f \in Notes \cup {Null}, plain \in PasteTexts,
          html \in PasteTexts \cup {NoHtml, ReadFails} : StartPaste(p, f, plain, html)
    \/ \E p \in Pasters : ReadTextResolved(p)
    \/ \E p \in Pasters : ReadTextRejected(p)
    \/ \E p \in Pasters : ReadResolved(p)
    \/ \E p \in Pasters : SaveResolved(p)
    \/ \E p \in Pasters : CreateResolved(p)
    \/ \E p \in Pasters : VaultReadResolved(p)
    \/ \E p \in Pasters : ModifyResolved(p)

SpecPaste == Init /\ [][NextPaste]_vars

(***************************************************************************)
(* Properties of the verse linker (checked under SpecLink).                *)
(***************************************************************************)
\* A step of the while loop: match' is the match it handled.
IterStep == pc = "scan" /\ pc' = "scan"
\* The text the iteration copies before handling the match.
Skipped == Substring(text, lastIndex, match'.index)
Resolves(m) == m.kind = 1 /\ Truthy(BookCodeOf(m))

\* The version code the claim describes: the table entry whose name equals the
\* requested translation up to letter case, else the translation itself.
ExpectedVersionCode(v) ==
    IF \E k \in DOMAIN VERSION_MAPPING : ToLowerCase(k) = ToLowerCase(v)
    THEN VERSION_MAPPING[CHOOSE k \in DOMAIN VERSION_MAPPING : ToLowerCase(k) = ToLowerCase(v)]
    ELSE v

\* `{code}{chapter}.{verse}[-{endverse}]` with a hyphen as range separator
ExpectedRef(code, chapter, m) ==
    code \o chapter \o "." \o m.verse \o (IF m.endVerse = Undef THEN "" ELSE "-" \o m.endVerse)

ExpectedLink(label, code, chapter, m) ==
    "[" \o label \o "](https://ref.ly/" \o ExpectedRef(code, chapter, m) \o ";"
        \o ExpectedVersionCode(version) \o ")"

\* C5: every full reference whose book resolves is replaced by
\* [matched text verbatim](https://ref.ly/{code}{chapter}.{verse}[-{endverse}];{v}),
\* with a hyphen in the URL whatever dash the text uses and {v} the
\* case-insensitively mapped version code, or the version verbatim.
C5_FullReferenceLink ==
    [][(IterStep /\ Resolves(match')) =>
        /\ match'.g0 = Substring(text, match'.index, match'.end)
        /\ finalResult' = finalResult \o Skipped
              \o ExpectedLink(match'.g0, BookCodeOf(match'), match'.chapter, match')
        /\ ExpectedVersionCode(version) = getLogosVersionCode(version)]_vars

\* C5 witness: an en-dash range in a resolved full reference, under a version
\* given in upper case that the table maps.
C5_Witness ==
    /\ pc = "scan"
    /\ Resolves(match)
    /\ Includes(match.g0, EnDash)
    /\ version = "NASB"
    /\ Includes(finalResult, "." \o match.verse \o "-" \o match.endVerse \o ";nasb95)")

\* No full reference pattern occurring anywhere in s names a known book.
NoBookResolves(s) == \A i \in 0..Len(s) : ~Resolves(Alt1(s, i))

\* C6: a text in which no full reference resolves to a known book is returned
\* exactly unchanged, whatever bare, sequential or verse-only tokens it holds.
C6_NoBookNoLink ==
    (pc = "done" /\ NoBookResolves(text)) => finalResult = text

\* C6 witness: a returned text holding an unresolved full reference, a
\* sequential reference and a verse-only token.
C6_Witness ==
    /\ pc = "done"
    /\ NoBookResolves(text)
    /\ \E i \in 0..Len(text) : Alt1(text, i).kind = 1
    /\ \E i \in 0..Len(text) : Alt2(text, i).kind = 2
    /\ \E i \in 0..Len(text) : Alt4(text, i).kind = 4
    /\ finalResult = text

\* C7: a sequential `separator chapter:verse` reference is linked with the book
\* of the most recent resolved full reference (a newer one replaces the older),
\* only when a book is in scope; text and matches that are no full reference
\* leave the carried book alone.
C7_SequentialUsesLastBook ==
    [][IterStep =>
        /\ Resolves(match') => lastBookCode' = BookCodeOf(match')
        /\ match'.kind # 1 => lastBookCode' = lastBookCode
        /\ match'.kind = 2 =>
              finalResult' = finalResult \o Skipped \o
                 (IF lastBookCode # Null
                  THEN match'.sep \o (IF match'.sep = "(" THEN "" ELSE " ")
                         \o ExpectedLink(Trim(SubstringFrom(match'.g0, 1)), lastBookCode,
                                         match'.chapter, match')
                  ELSE match'.g0)]_vars

\* C7 witness: two different books resolved with unmatched text between
\* them, and the sequential reference linked with the newer book.
C7_Witness ==
    /\ pc = "scan"
    /\ match.kind = 2
    /\ lastBookCode = "1Jn"
    /\ Includes(finalResult, "](https://ref.ly/Is2.3")
    /\ Includes(finalResult, "[" \o match.chapter \o ":" \o match.verse \o "](https://ref.ly/1Jn")

\* C8: a full reference whose book does not resolve is emitted unchanged and
\* clears the carried book and chapter; while no book is carried no sequential,
\* bare or verse-only reference is linked.
C8_UnresolvedClears ==
    [][IterStep =>
        /\ (match'.kind = 1 /\ ~Resolves(match')) =>
              /\ finalResult' = finalResult \o Skipped \o match'.g0
              /\ lastBookCode' = Null
              /\ lastChapter' = Null
        /\ (match'.kind \in {2, 3, 4} /\ lastBookCode = Null) =>
              /\ finalResult' = finalResult \o Skipped \o match'.g0
              /\ lastBookCode' = Null
              /\ lastChapter' = lastChapter]_vars

\* C8 witness: after a linked reference an unresolved one cleared the book,
\* and a sequential reference was then left as plain text.
C8_Witness ==
    /\ pc = "scan"
    /\ match.kind = 2
    /\ lastBookCode = Null
    /\ lastChapter = Null
    /\ Includes(finalResult, "](https://ref.ly/Is2.3")
    /\ Includes(finalResult, " At 9:30" \o match.g0)

\* A verse-only token at index i of s behind one of the separators seps:
\* separator, optional white space, verse[-endverse], and no chapter:verse.
VerseOnlyTokenAt(s, i, seps) ==
    /\ IsIn(s, i, seps)
    /\ VerseTail(s, RunEnd(s, i + 1, White)).ok
    /\ Alt2(s, i).kind = 0

VerseOnlyLink(s, i, book, chapter) ==
    LET t == VerseTail(s, RunEnd(s, i + 1, White))
    IN  CharAt(s, i) \o " "
          \o ExpectedLink(Substring(s, RunEnd(s, i + 1, White), t.end), book, chapter, t)

\* C9 as stated: a verse-only token behind `;` or `,` is linked whenever a
\* book and a chapter are in scope.
C9_AsStated ==
    [][(pc = "scan" /\ VerseOnlyTokenAt(text, lastIndex, {";", ","})
          /\ lastBookCode # Null /\ lastChapter # Null) =>
        finalResult' = finalResult \o VerseOnlyLink(text, lastIndex, lastBookCode, lastChapter)]_vars

\* C9 amended: a verse-only token behind a comma is linked if and only if a
\* book and a chapter are in scope, to {lastBookCode}{lastChapter}.{verse}[-{endverse}];
\* lastChapter is the chapter of the most recent full, sequential or bare
\* chapter:verse reference that was linked; the verse-only step changes
\* neither book nor chapter; a verse-only token behind `;` is never matched.
C9_VerseOnlyAfterComma ==
    [][/\ (pc = "scan" /\ VerseOnlyTokenAt(text, lastIndex, {","})) =>
            /\ IterStep /\ match'.kind = 4 /\ match'.index = lastIndex
            /\ finalResult' = finalResult \o
                  (IF lastBookCode # Null /\ lastChapter # Null
                   THEN VerseOnlyLink(text, lastIndex, lastBookCode, lastChapter)
                   ELSE match'.g0)
       /\ (IterStep /\ match'.kind = 4) =>
            /\ lastBookCode' = lastBookCode
            /\ lastChapter' = lastChapter
            /\ match'.sep = ","
       /\ (IterStep /\ (Resolves(match') \/ (match'.kind \in {2, 3} /\ lastBookCode # Null))) =>
            lastChapter' = match'.chapter
       /\ (pc = "scan" /\ VerseOnlyTokenAt(text, lastIndex, {";"})) =>
            ~(IterStep /\ match'.index = lastIndex)]_vars

\* C9 witness: a verse-only token behind a comma linked with the chapter that
\* a sequential reference set.
C9_Witness ==
    /\ pc = "scan"
    /\ match.kind = 4
    /\ lastBookCode = "Is"
    /\ lastChapter = "4"
    /\ Includes(finalResult, "; [4:5](https://ref.ly/Is4.5;")
    /\ Includes(finalResult, ", [13](https://ref.ly/Is4.13;")

(***************************************************************************)
(* Properties of the clipboard parser (checked under SpecClip).            *)
(***************************************************************************)
\* The rules of the detector in the order of the claim, and their verdicts.
RuleHolds(k, tr) ==
    IF k = 1 THEN HasBibtexMarker(tr)
    ELSE IF k = 2
         THEN hasMarkdownLink(tr) /\ (Test(MdChicagoPlaceRe, tr) \/ Test(MdChicagoYearRe, tr))
    ELSE IF k = 3 THEN hasMarkdownLink(tr) /\ Test(MdMlaRe, tr)
    ELSE IF k = 4 THEN hasMarkdownLink(tr) /\ Test(MdApaRe, tr)
    ELSE IF k = 5 THEN Test(ApaRe, tr)
    ELSE IF k = 6 THEN Test(ChicagoRe, tr)
    ELSE Test(MlaRe, tr)
RuleVerdict == <<"bibtex", "chicago", "mla", "apa", "apa", "chicago", "mla">>
FirstRuleVerdict(tr) ==
    IF \E k \in 1..7 : RuleHolds(k, tr)
    THEN RuleVerdict[Min({k \in 1..7 : RuleHolds(k, tr)})]
    ELSE "bibtex"

\* C1: detectCitationFormat never raises and returns the verdict of the first
\* rule that matches the trimmed text, in the order BibTeX marker, markdown
\* chicago, markdown mla, markdown apa, plain apa, plain chicago, plain mla,
\* and bibtex when no rule matches; the result is one of bibtex, mla, apa,
\* chicago and never 'auto'.
C1_DetectorOrder ==
    ret.fn = "detectCitationFormat" =>
        /\ ~ret.raised
        /\ ret.value \in {"bibtex", "mla", "apa", "chicago"}
        /\ ret.value = FirstRuleVerdict(Trim(clipboard))

\* A plain text that matches the Chicago and the MLA pattern was classified.
C1_Witness ==
    /\ ret.fn = "detectCitationFormat"
    /\ ~HasBibtexMarker(Trim(clipboard))
    /\ ~hasMarkdownLink(Trim(clipboard))
    /\ ~Test(ApaRe, Trim(clipboard))
    /\ Test(ChicagoRe, Trim(clipboard))
    /\ Test(MlaRe, Trim(clipboard))
    /\ ret.value = "chicago"

\* parseLogosClipboard is running or has returned.
InParse == cpc \in {"resolved", "split", "cleaned", "paged"} \/ ret.fn = "parseLogosClipboard"

\* C2: parseLogosClipboard resolves the format as preferredFormat when that is
\* not 'auto' and as detectCitationFormat(trimmed input) when it is; a
\* returned citation that is not null carries the resolved format.
C2_FormatResolution ==
    /\ InParse =>
          /\ trimmed = Trim(clipboard)
          /\ preferredFormat # "auto" => format = preferredFormat
          /\ preferredFormat = "auto" => format = detectCitationFormat(trimmed)
    /\ (ret.fn = "parseLogosClipboard" /\ ret.value.citation # NullCitation) =>
          ret.value.citation.format = format

\* A citation was returned in a preferred format the detector disagrees with.
C2_Witness ==
    /\ ret.fn = "parseLogosClipboard"
    /\ preferredFormat = "mla"
    /\ detectCitationFormat(trimmed) = "chicago"
    /\ ret.value.citation # NullCitation
    /\ ret.value.citation.format = "mla"

\* The step of parseLogosClipboard that splits text and citation.
SplitTaken == cpc = "resolved" /\ cpc' = "split"
\* The index of the first whitespace that immediately precedes `@word{`
\* (of the run of whitespace in front of it).
FirstSplitPoint(tr) == Min(SplitStarts(tr))

\* C3: with format bibtex the trimmed input is split in two at the first
\* whitespace in front of `@word{`: mainText is the text before it and the
\* citation text everything from that `@` to the end of the input; an input
\* that starts with `@word{` and has no split point is the citation text as
\* a whole, with an empty mainText; an input without split point that does not
\* start with `@` is mainText as a whole, with an empty citation text.
C3_AsStated ==
    [][(SplitTaken /\ format = "bibtex") =>
        /\ SplitStarts(trimmed) # {} =>
              /\ mainText' = Trim(Substring(trimmed, 0, FirstSplitPoint(trimmed)))
              /\ citationText' =
                     Trim(SubstringFrom(trimmed, RunEnd(trimmed, FirstSplitPoint(trimmed), White)))
        /\ (SplitStarts(trimmed) = {} /\ MatchEnds(BibtexMarkerRe, trimmed, 0) # {}) =>
              mainText' = "" /\ citationText' = trimmed
        /\ (SplitStarts(trimmed) = {} /\ ~StartsWith(trimmed, "@")) =>
              mainText' = trimmed /\ citationText' = ""]_vars

\* The input holds no recognizable citation for the format: no `@word{` for
\* bibtex, no line that looks like a citation start for the other formats.
NoCitationLine(fmt, lines) == \A k \in 1..Len(lines) : ~looksLikeCitation(fmt, Trim(lines[k]))
NoRecognizableCitation(fmt, tr) ==
    IF fmt = "bibtex" THEN ~Test(BibtexMarkerRe, tr) ELSE NoCitationLine(fmt, SplitLines(tr))

\* C4: parseLogosClipboard never raises, and when the input holds no
\* recognizable citation for the resolved format the result has citation null
\* and mainText equal to the trimmed input.
C4_AsStated ==
    ret.fn = "parseLogosClipboard" =>
        /\ ~ret.raised
        /\ NoRecognizableCitation(format, trimmed) =>
              /\ ret.value.citation = NullCitation
              /\ ret.value.mainText = trimmed

\* ^@\w+\{([^,]+),  : the input begins with `@type{key,`.
EntryKeyRe == BibtexMarkerRe \o <<Plus(Not({","})), Ch({","})>>
BeginsWithEntryKey(s) == MatchEnds(EntryKeyRe, s, 0) # {}
\* The key between the brace and the first comma behind it.
EntryKey(s) == Substring(s, IndexOf(s, "{") + 1, IndexOfFrom(s, ",", IndexOf(s, "{") + 1))
\* A sanitized key: letters, digits and single hyphens, none at either end.
IsSanitized(k) ==
    /\ \A i \in 0..(Len(k) - 1) : IsIn(k, i, AlNum \cup {"-"})
    /\ ~Includes(k, "--")
    /\ ~StartsWith(k, "-")
    /\ CharAt(k, Len(k) - 1) # "-"
\* The key parseBibtex makes up from the author and the year.
SynthesizedKey(c) ==
    WhiteToHyphen(ToLowerCase(Trim(BeforeComma(c.author)))) \o "-" \o c.year

\* C10: extractCiteKey raises "Could not extract cite key" exactly when the
\* input does not begin with `@type{key,` and returns the sanitized key
\* otherwise; no other function of the parser raises; parseBibtex on an input
\* extractCiteKey raises on returns the citeKey 'unknown' or the key made up
\* from author and year.
C10_OnlyExtractCiteKeyRaises ==
    /\ ret.fn = "extractCiteKey" =>
          /\ ret.raised <=> ~BeginsWithEntryKey(clipboard)
          /\ ret.raised => ret.value = "Could not extract cite key"
          /\ ~ret.raised =>
                /\ ret.value = SanitizeCiteKey(EntryKey(clipboard))
                /\ IsSanitized(ret.value)
    /\ ret.fn # "extractCiteKey" => ~ret.raised
    /\ (ret.fn = "parseBibtex" /\ ~BeginsWithEntryKey(clipboard)) =>
          \/ ret.value.citeKey = "unknown"
          \/ /\ ret.value.author # Null
             /\ ret.value.year # Null
             /\ ret.value.citeKey = SynthesizedKey(ret.value)

\* extractCiteKey raised on an input that starts with `@`.
C10_Witness ==
    /\ ret.fn = "extractCiteKey"
    /\ StartsWith(clipboard, "@")
    /\ ret.raised

\* The functions that return a ParsedCitation.
Extractors == {"parseBibtex", "parseMLA", "parseAPA", "parseChicago"}
\* A slug: non-empty, over [a-z0-9-], no hyphen at either end, none doubled.
IsSlug(k) ==
    /\ k # ""
    /\ \A i \in 0..(Len(k) - 1) : IsIn(k, i, Lower \cup Digit \cup {"-"})
    /\ ~Includes(k, "--")
    /\ CharAt(k, 0) # "-"
    /\ CharAt(k, Len(k) - 1) # "-"

\* C11: the citeKey of every citation record that parseBibtex, parseMLA,
\* parseAPA or parseChicago returns is a non-empty slug over [a-z0-9-] without
\* leading, trailing or doubled hyphens.
C11_AsStated == ret.fn \in Extractors => IsSlug(ret.value.citeKey)

\* C12: for a BibTeX text that begins with `@type{key,` the citeKey of
\* parseBibtex and the key of extractCiteKey hold no `_` and no run of two or
\* more hyphens.
C12_AsStated ==
    (ret.fn \in {"parseBibtex", "extractCiteKey"} /\ BeginsWithEntryKey(clipboard)) =>
        LET key == IF ret.fn = "parseBibtex" THEN ret.value.citeKey ELSE ret.value
        IN  ~ret.raised /\ ~Includes(key, "_") /\ ~Includes(key, "--")

\* A page label: p or pp in either case, the period (an item that is
\* required or optional), an optional space, digits and an optional range.
IsPageLabel(l, period) ==
    LET single == <<Ch({"p", "P"}), Opt(Ch({"p", "P"})), period, Opt(Ch({" "})), Plus(Ch(Digit))>>
    IN  Len(l) \in MatchEnds(single, l, 0)
                      \cup MatchEnds(single \o <<Ch(Dash), Plus(Ch(Digit))>>, l, 0)
\* The ways txt ends with a page marker: <<i, a, j>> with the marker from i,
\* the label from a (behind the optional separator) up to j, and an optional
\* closing bracket and final period behind it.
PageMarkers(txt, period) ==
    {m \in (0..Len(txt)) \X (0..Len(txt)) \X ((Len(txt) - 2)..Len(txt)) :
        /\ m[2] = m[1] \/ (m[2] = m[1] + 1 /\ IsIn(txt, m[1], {"(", "[", ",", " "}))
        /\ m[2] < m[3]
        /\ SubstringFrom(txt, m[3]) \in {"", ")", "]", ".", ").", "]."}
        /\ IsPageLabel(Substring(txt, m[2], m[3]), period)}
\* What extractPageNumber(txt) returned agrees with the markers of that shape.
PageAgrees(txt, r, period) ==
    LET ms == PageMarkers(txt, period)
        m == CHOOSE m \in ms : \A n \in ms : m[1] <= n[1]
    IN  /\ r.page # Null <=> ms # {}
        /\ ms # {} =>
              /\ r.page = Substring(txt, m[2], m[3])
              /\ r.cleanedText = Trim(Substring(txt, 0, m[1]))
              /\ RemoveWhite(r.cleanedText \o Substring(txt, m[1], m[2]) \o r.page
                                \o SubstringFrom(txt, m[3])) = RemoveWhite(txt)
        /\ ms = {} => r.cleanedText = Trim(txt)

\* C13 as stated: extractPageNumber returns a page exactly when the text ends
\* with optional separator, `p.` or `pp.` with its period, optional space,
\* digits, optional range, optional closing bracket, optional final period;
\* the page is the label and cleanedText the trimmed text in front of the
\* marker; otherwise the page is null and cleanedText the trimmed text.
C13_AsStated ==
    ret.fn = "extractPageNumber" => PageAgrees(clipboard, ret.value, Ch({"."}))

\* C13: the same with the period behind p or pp being optional: `p12` and
\* `pp 3-4` are page labels too.
C13_PageMarker ==
    ret.fn = "extractPageNumber" => PageAgrees(clipboard, ret.value, Opt(Ch({"."})))

\* A label without period was extracted from behind a separator and in front
\* of a closing bracket.
C13_Witness ==
    /\ ret.fn = "extractPageNumber"
    /\ ret.value.page = "pp 3~4"
    /\ ret.value.cleanedText # ""

\* The citation text behind the split, in front of the page extraction.
SplitCitationText == SplitClipboard(format, trimmed).citationText
\* The leftmost page marker of txt.
FirstPageMarker(txt) ==
    CHOOSE m \in PageMarkers(txt, Opt(Ch({"."}))) :
        \A n \in PageMarkers(txt, Opt(Ch({"."}))) : m[1] <= n[1]

\* C14: the page parseLogosClipboard returns is the trailing page marker of
\* the citation text when there is one, and the marker is taken off the text
\* the citation is parsed from; otherwise it is the pages field of the parsed
\* citation; otherwise it is null.
C14_PagePrecedence ==
    ret.fn = "parseLogosClipboard" =>
        LET hasMarker == PageMarkers(SplitCitationText, Opt(Ch({"."}))) # {}
            m == FirstPageMarker(SplitCitationText)
        IN  /\ hasMarker =>
                  /\ ret.value.page = Substring(SplitCitationText, m[2], m[3])
                  /\ citationText = Trim(Substring(SplitCitationText, 0, m[1]))
            /\ ~hasMarker =>
                  /\ citationText = Trim(SplitCitationText)
                  /\ ret.value.page = IF ret.value.citation # NullCitation
                                       THEN ret.value.citation.pages ELSE Null
            /\ ret.value.citation = ParseCitation(format, citationText)

\* A citation with a pages field was returned with the page of the marker
\* that stood behind it.
C14_Witness ==
    /\ ret.fn = "parseLogosClipboard"
    /\ ret.value.citation # NullCitation
    /\ ret.value.citation.pages = "7"
    /\ ret.value.page = "p. 12"

\* The first run `https://ref.ly/...` of tr up to whitespace, `)` or `}`,
\* without its trailing punctuation; Null when there is none.
FirstReflyRun(tr) ==
    LET prefix == "https://ref.ly/"
        stop(i) == ClassRunEnd(tr, Not(White \cup {")", "}"}), i + Len(prefix))
        runs == {i \in 0..Len(tr) :
                    /\ i + Len(prefix) <= Len(tr)
                    /\ Substring(tr, i, i + Len(prefix)) = prefix
                    /\ stop(i) > i + Len(prefix)}
    IN  IF runs = {} THEN Null
        ELSE StripTrailingPunctuation(Substring(tr, Min(runs), stop(Min(runs))))

\* C15: when parseLogosClipboard returns a reflyLink, the returned mainText
\* holds no occurrence of that URL (with or without the `(Resource Link: URL)`
\* wrapper), and the reflyLink is the first `https://ref.ly/...` run of the
\* trimmed input up to whitespace, `)` or `}` without trailing punctuation.
C15_AsStated ==
    (ret.fn = "parseLogosClipboard" /\ ret.value.reflyLink # Null) =>
        /\ ret.value.reflyLink = FirstReflyRun(trimmed)
        /\ ~Includes(ret.value.mainText, ret.value.reflyLink)

\* C16: in any sequence of calls the output of a call of linkBibleVerses is
\* the output its own arguments text and version give with no book and no
\* chapter in scope at the start, whatever the calls before resolved.
C16_NoStateBetweenCalls == pc = "done" => finalResult = FreshOutput(text, version)

\* A call that follows a call with a resolved book returned a sequential
\* reference unlinked.
C16_Witness ==
    /\ pc = "done"
    /\ earlierBook # Null
    /\ text = "; 4:5"
    /\ finalResult = text

\* C17: cleanFormattedText is idempotent: applied to its own result it
\* returns that result unchanged, for every text, the texts with no
\* unmatched underscore among them; one application rewrites each __text__
\* to <sup>text</sup> and then each remaining _text_ to *text*.
C17_Idempotent == cpc = "again" => ret.value = clipboard

\* "__a___a_" holds one __text__ and one _text_ and no other underscore; both
\* were rewritten and the second application returned the same.
C17_Witness ==
    /\ cpc = "again"
    /\ clipboard = "<sup>a</sup>*a*"
    /\ ret.value = "<sup>a</sup>*a*"

EntryField(bibtex, name) ==
    LET starts == {i \in Starts(BraceFieldRe(name), bibtex) : ~IsIn(bibtex, i - 1, WordCh)}
    IN  IF starts = {} THEN Null
        ELSE Substring(bibtex, FieldBrace(bibtex, Min(starts), name) + 1,
                       IndexOfFrom(bibtex, "}", FieldBrace(bibtex, Min(starts), name) + 1))

\* The value of the first field present in the order journal, booktitle,
\* series, title.
FirstPresentTitle(bibtex) ==
    IF EntryField(bibtex, "journal") # Null THEN EntryField(bibtex, "journal")
    ELSE IF EntryField(bibtex, "booktitle") # Null THEN EntryField(bibtex, "booktitle")
    ELSE IF EntryField(bibtex, "series") # Null THEN EntryField(bibtex, "series")
    ELSE EntryField(bibtex, "title")

\* C19: parseBibtex takes the title from the first field present in the order
\* journal, booktitle, series, title (linked to the url when there is one), and
\* title and cleanedTitle are null only when all four fields are absent.
C19_AsStated ==
    ret.fn = "parseBibtex" =>
        /\ ret.value.cleanedTitle = FirstPresentTitle(clipboard)
        /\ ret.value.title = BibtexTitle(FirstPresentTitle(clipboard), EntryField(clipboard, "url"))

\* One of the two parses of what the clipboard holds yields a citation.
YieldsCitation(held) ==
    \/ parseLogosClipboard(held.plain, Settings.citationFormat).citation # NullCitation
    \/ /\ held.html \notin {NoHtml, ReadFails}
       /\ parseLogosClipboard(held.html, Settings.citationFormat).citation # NullCitation

\* A step shows the notice n.
Shows(n) == notices' = Append(notices, n)
\* A step leaves the notes, the counters, the saved settings and the vault alone.
NothingPasted == UNCHANGED <<editorContent, citationCounters, savedCounters, vaultFiles>>
\* Run p goes on to paste: the counter of its note goes up by one and the run
\* waits for the settings to be saved.
Proceeds(p) ==
    /\ pastePc'[p] = "saveSettings"
    /\ notices' = notices
    /\ citationCounters' = [citationCounters EXCEPT ![pasteFile[p]] = @ + 1]

MarkdownFallsThrough(tr) ==
    /\ ~HasBibtexMarker(tr)
    /\ hasMarkdownLink(tr)
    /\ MarkdownRule(tr) = Null

CitationLooking(fmt, lines) ==
    {k \in 1..Len(lines) : looksLikeCitation(fmt, Trim(lines[k]))}

\* The 0-based index of the topmost line of the run of citation-looking lines
\* that ends at the lowest citation-looking line; -1 when no line looks like a
\* citation.
RunTop(fmt, lines) ==
    IF CitationLooking(fmt, lines) = {} THEN -1
    ELSE Min({s \in 1..Max(CitationLooking(fmt, lines)) :
                 \A j \in s..Max(CitationLooking(fmt, lines)) :
                     j \in CitationLooking(fmt, lines)}) - 1

\* The scan read to the letter: it ends at the first non-blank line that does
\* not look like a citation, whether or not a run was found below it.
RECURSIVE StatedStart(_, _, _, _)
StatedStart(fmt, lines, i, start) ==
    IF i < 0 THEN start
    ELSE IF Trim(lines[i + 1]) = ""
         THEN (IF start # -1 THEN start ELSE StatedStart(fmt, lines, i - 1, start))
    ELSE IF looksLikeCitation(fmt, Trim(lines[i + 1]))
         THEN StatedStart(fmt, lines, i - 1, i)
    ELSE start

\* The split of the lines at index start, as the parts are described.
SplitAt(tr, lines, start, trim) ==
    IF start > 0
    THEN [mainText |-> IF trim THEN Trim(JoinLines(lines, 0, start))
                       ELSE JoinLines(lines, 0, start),
          citationText |-> IF trim THEN Trim(JoinLines(lines, start, Len(lines)))
                           ELSE JoinLines(lines, start, Len(lines))]
    ELSE [mainText |-> "", citationText |-> tr]

\* C22 as stated: for mla, apa and chicago the scan goes up from the last line
\* and stops at the first blank line behind a run of citation-looking lines or
\* at the first non-matching non-blank line; with the start at an index > 0
\* mainText is the lines before it joined by newline and the citation text
\* the remaining lines, so that every input line is in exactly one of the two;
\* otherwise mainText is empty and the citation text is the whole input.
C22_AsStated ==
    [][(SplitTaken /\ format # "bibtex") =>
         LET lines == SplitLines(trimmed)
             parts == SplitAt(trimmed, lines,
                              StatedStart(format, lines, Len(lines) - 1, -1), FALSE)
         IN  /\ mainText' = parts.mainText
             /\ citationText' = parts.citationText
             /\ parts.mainText # "" =>
                    mainText' \o "\n" \o citationText' = JoinLines(lines, 0, Len(lines))]_vars

\* C22: for mla, apa and chicago the citation start is the topmost line of the
\* run of citation-looking lines that ends at the lowest citation-looking
\* line: lines below that run that are blank or do not look like a citation
\* are passed over, and the run ends upward at the first line that is blank or
\* does not look like a citation.  With the start at an index > 0 mainText is
\* the lines before it joined by newline and the citation text the remaining
\* lines joined by newline, each with its outer whitespace trimmed; with the
\* start at index 0 or no citation-looking line mainText is empty and the
\* citation text is the whole trimmed input.
C22_LineScan ==
    [][(SplitTaken /\ format # "bibtex") =>
         LET lines == SplitLines(trimmed)
             parts == SplitAt(trimmed, lines, RunTop(format, lines), TRUE)
         IN  /\ mainText' = parts.mainText
             /\ citationText' = parts.citationText
             /\ RunTop(format, lines) <= 0 => mainText' = "" /\ citationText' = trimmed]_vars

\* A text, a blank line, a citation line and a line below it that does not
\* look like a citation were split under the format apa.
C22_Witness ==
    /\ cpc = "split"
    /\ format = "apa"
    /\ trimmed = "Grace.\n\nDo (2020). T.\nIbid"
    /\ mainText = "Grace."
    /\ citationText = "Do (2020). T.\nIbid"

(***************************************************************************)
(* Properties of the citeKey of parseMLA, parseAPA, parseChicago.          *)
(***************************************************************************)
\* The author text in front of the first `,`, `&` or word `and`.
StatedFirstAuthor(author) ==
    LET cuts == {k \in 0..(Len(author) - 1) :
                    \/ IsIn(author, k, {"&", ","})
                    \/ /\ k + 3 <= Len(author)
                       /\ Substring(author, k, k + 3) = "and"
                       /\ WordBoundary(author, k)
                       /\ WordBoundary(author, k + 3)}
    IN  IF cuts = {} THEN author ELSE Substring(author, 0, Min(cuts))

\* lastname-year: the last whitespace-separated token of the first author,
\* lowercased, non-word characters stripped.
StatedCiteKey(author, year) ==
    IF ~Truthy(author) \/ ~Truthy(year) THEN "unknown"
    ELSE LET firstAuthor == Trim(StatedFirstAuthor(author))
             whites == {k \in 0..(Len(firstAuthor) - 1) : IsIn(firstAuthor, k, White)}
             last == IF whites = {} THEN firstAuthor
                     ELSE SubstringFrom(firstAuthor, Max(whites) + 1)
         IN  KeepWordChars(ToLowerCase(last)) \o "-" \o year

\* C23 as stated: parseMLA, parseAPA and parseChicago compute citeKey the same
\* way: 'unknown' if and only if author or year is missing, else lastname-year
\* with lastname the last whitespace-separated token of the author text in
\* front of the first `,`, `&` or word `and`, lowercased, non-word characters
\* stripped; a surname that contains the letters `and` is not cut.
C23_AsStated ==
    ret.fn \in {"parseMLA", "parseAPA", "parseChicago"} =>
        /\ ret.value.citeKey = StatedCiteKey(ret.value.author, ret.value.year)
        /\ ret.value.citeKey = "unknown" <=>
               (~Truthy(ret.value.author) \/ ~Truthy(ret.value.year))

(***************************************************************************)
(* Properties of title and url of parseBibtex (checked under SpecFields).  *)
(***************************************************************************)
\* The entry as parseBibtex reads its fields, the value its title is made
\* from, and the value of its url field.
Normalized == NormalizeLinkedFields(clipboard, 0)
ChosenTitle == RawTitleValue(Normalized)
UrlField == BraceField(Normalized, "url")
Linked(value, urlValue) == "[" \o value \o "](" \o urlValue \o ")"

\* The first two parts of the claim, with `has no link` decided by test.
TitleUrlRules(hasNoLink(_)) ==
    /\ (ChosenTitle # Null /\ Test(LinkRe, ChosenTitle)) =>
          /\ ret.value.title = ChosenTitle
          /\ ret.value.url = IF UrlField # Null THEN UrlField ELSE EmbeddedLinkUrl(ChosenTitle)
    /\ (ChosenTitle # Null /\ UrlField # Null /\ hasNoLink(ChosenTitle)) =>
          /\ ret.value.title = Linked(ChosenTitle, UrlField)
          /\ ret.value.url = UrlField
          /\ Includes(ret.value.rawCitation,
                      TitleSourceField(Normalized) \o "={" \o ret.value.title \o "}")
          /\ ~Includes(ret.value.rawCitation,
                       TitleSourceField(Normalized) \o "={" \o ChosenTitle \o "}")

HasNoLinkRe(value) == ~Test(LinkRe, value)
HasNoLinkMark(value) == ~Includes(value, "](")

BookPrefixes == {"", "1 ", "2 ", "3 ", "I ", "II ", "III "}
BookNames == {"Isa", "Isaiah", "Jn", "John", "Kings", "Sa", "Gen", "At"}
BookTexts == {p \o b \o " 2:3" : p \in BookPrefixes, b \in BookNames}

\* ((prefix || '') + book).toLowerCase().replace(/\s+/g, '')
RawBook(m) == RemoveWhite(ToLowerCase((IF Truthy(m.prefix) THEN m.prefix ELSE "") \o m.book))

\* bible-linker.ts, lines 79-81: the substitution is applied to every token.
BookCodeSubstituted(m) == Lookup(BIBLE_BOOKS, RomanToDigit(RawBook(m)))

InitBooks ==
    /\ pc = "token"
    /\ ntok = 0
    /\ text \in BookTexts
    /\ version = "esv"
    /\ lastBookCode = Null
    /\ lastChapter = Null
    /\ finalResult = ""
    /\ lastIndex = 0
    /\ match = NoMatch
    /\ earlierBook = Null
    /\ InitClip
    /\ InitPaste

\* The first iteration of the loop of part_000 on a single reference.
ResolveBook ==
    /\ pc = "token"
    /\ pc' = "part_000"
    /\ LoopBody(Exec(text, 0))
    /\ UNCHANGED <<ntok, text, version, earlierBook, clipState, pasteState>>

\* The first iteration of the loop of bible-linker.ts (lines 68-91) on a
\* single reference.  Its pattern takes [A-Za-z]+ for the book where part_000
\* takes [A-Z][a-z]+; on a capitalized book name prefix + book is the same
\* text under both.
ResolveBookSubstituted ==
    /\ pc = "token"
    /\ pc' = "bible-linker.ts"
    /\ match' = Exec(text, 0)
    /\ match'.kind = 1
    /\ lastBookCode' = IF Truthy(BookCodeSubstituted(match')) THEN BookCodeSubstituted(match')
                       ELSE Null
    /\ finalResult' =
           IF Truthy(BookCodeSubstituted(match'))
           THEN LinkOf(match'.g0, RefOf(BookCodeSubstituted(match'), match'.chapter,
                                        match'.verse, match'.endVerse),
                       getLogosVersionCode(version))
           ELSE match'.g0
    /\ lastIndex' = match'.end
    /\ UNCHANGED <<ntok, text, version, lastChapter, earlierBook, clipState, pasteState>>

NextBooks == ResolveBook \/ ResolveBookSubstituted

SpecBooks == InitBooks /\ [][NextBooks]_vars

\* The prefix of the match is roman, and the token with the prefix in digits.
RomanPrefixes == {"I", "II", "III"}
HasRomanPrefix(m) == Truthy(m.prefix) /\ Trim(m.prefix) \in RomanPrefixes
ArabicBook(m) == RomanToDigit(ToLowerCase(Trim(m.prefix))) \o ToLowerCase(m.book)

\* C25 as stated: the book token is looked up in its raw normalized form
\* first and the roman prefix is substituted only when that lookup fails: a
\* token whose raw form is in the table resolves to that entry, also when it
\* begins with `i`, and a token with a roman prefix resolves to the code of
\* its arabic form.
C25_AsStated ==
    (pc \in {"part_000", "bible-linker.ts"} /\ match.kind = 1) =>
        /\ RawBook(match) \in DOMAIN BIBLE_BOOKS => lastBookCode = BIBLE_BOOKS[RawBook(match)]
        /\ HasRomanPrefix(match) =>
              lastBookCode = IF ArabicBook(match) \in DOMAIN BIBLE_BOOKS
                             THEN BIBLE_BOOKS[ArabicBook(match)] ELSE Null

(***************************************************************************)
(* Properties of the output of the linker (checked under SpecLink).        *)
(***************************************************************************)
\* What the iteration that is being taken appended behind the text between
\* lastIndex and the match.
Appended ==
    SubstringFrom(finalResult', Len(finalResult) + (match'.index - lastIndex))

\* The iteration that is being taken linked a sequential (separator
\* chapter:verse) or a verse-only (separator verse) reference.
LinksSequential ==
    /\ pc = "scan" /\ pc' = "scan"
    /\ match'.kind \in {2, 4}
    /\ Includes(Appended, "](https://ref.ly/")

\* C26: when a sequential or verse-only reference is linked, the output is
\* the separator, one space behind `;` or `,` and none behind `(`, then the
\* markdown link whose label is the reference without the separator and
\* without surrounding whitespace; the text between the matches and behind
\* the last match, and every match that is not linked, is copied to the
\* output unchanged and in order.
C26_SeparatorSpacing ==
    [][/\ (pc = "scan" /\ pc' = "scan") =>
             /\ StartsWith(finalResult', finalResult \o Substring(text, lastIndex, match'.index))
             /\ lastIndex' = match'.end
             /\ ~Includes(Appended, "](https://ref.ly/") => Appended = match'.g0
       /\ LinksSequential =>
             LET label == Trim(SubstringFrom(match'.g0, Len(match'.sep)))
             IN  /\ match'.sep \in {";", ",", "("}
                 /\ StartsWith(match'.g0, match'.sep)
                 /\ StartsWith(Appended,
                               match'.sep \o (IF match'.sep \in {";", ","} THEN " " ELSE "")
                                   \o "[" \o label \o "](https://ref.ly/")
                 /\ CharAt(Appended, Len(Appended) - 1) = ")"
                 /\ ~Includes(SubstringFrom(Appended, Len(match'.sep) + 1), " ")
       /\ (pc = "scan" /\ pc' = "done") =>
             finalResult' = finalResult \o SubstringFrom(text, lastIndex)]_vars

\* A reference behind `(` was linked without a space and a verse behind `,`
\* with one.
C26_Witness ==
    /\ pc = "done"
    /\ text = "Isa 2:3(4:2, 13"
    /\ finalResult = "[Isa 2:3](https://ref.ly/Is2.3;esv)([4:2](https://ref.ly/Is4.2;esv), [13](https://ref.ly/Is4.13;esv)"

\* C27: at every step of a scan lastBookCode is null if and only if
\* lastChapter is null: both start null, a full reference that resolves sets
\* both, one that does not resolve clears both, and a chapter:verse or
\* verse-only match changes the chapter only while a book is set and never
\* changes the book.
C27_BookIffChapter ==
    [][/\ (lastBookCode = Null) <=> (lastChapter = Null)
       /\ (lastBookCode' = Null) <=> (lastChapter' = Null)
       /\ (pc = "input" /\ pc' = "scan") => lastBookCode' = Null /\ lastChapter' = Null
       /\ (IterStep /\ match'.kind = 1) =>
             IF Truthy(Lookup(BIBLE_BOOKS, RawBook(match')))
                    \/ Truthy(Lookup(BIBLE_BOOKS, RomanToDigit(RawBook(match'))))
             THEN lastBookCode' # Null /\ lastChapter' = match'.chapter
             ELSE lastBookCode' = Null /\ lastChapter' = Null
       /\ (IterStep /\ match'.kind # 1) =>
             /\ lastBookCode' = lastBookCode
             /\ lastChapter' # lastChapter => lastBookCode # Null /\ lastChapter' = match'.chapter
             /\ match'.kind = 4 => lastChapter' = lastChapter]_vars

\* A scan that had a book and a chapter set, moved the chapter with a
\* sequential reference and lost both at a reference that does not resolve.
C27_Witness ==
    /\ pc = "scan"
    /\ match.kind = 1
    /\ match.book = "At"
    /\ lastBookCode = Null
    /\ lastChapter = Null
    /\ Includes(finalResult, "; [4:5](https://ref.ly/Is4.5;")

(***************************************************************************)
(* Properties of the paste command (checked under SpecPaste).              *)
(***************************************************************************)
\* The number of occurrences of sub in s.
RECURSIVE CountOf(_, _)
CountOf(s, sub) ==
    IF ~Includes(s, sub) THEN 0
    ELSE 1 + CountOf(SubstringFrom(s, IndexOf(s, sub) + Len(sub)), sub)

\* Run p ends in this step before anything is pasted: the view has no file,
\* the clipboard cannot be read, or no citation is found.
EndsUnpasted(p) ==
    /\ pastePc[p] \in {"idle", "done", "failed", "readText", "read"}
    /\ pastePc'[p] \in {"done", "failed"}
    /\ <<pastePc[p], pasteFile[p], pasteClipboard[p]>>
           # <<pastePc'[p], pasteFile'[p], pasteClipboard'[p]>>

KCitation == parseLogosClipboard("Grace.\n@b{k,}", Settings.citationFormat).citation
LinkFromA == "[[A#^k-1]]![[A#^k-1]]"
LinkFromB == "[[B#^k-1]]![[B#^k-1]]"
\* The reference file the paste in note B creates, and a section a user adds.
CreatedFromB == "---\ncite-key: \"k\"\n---\n\n## Citations\n\n- [[B#^k-1]]![[B#^k-1]]"
NotesSection == "\n\n## Notes\nFine.\n"

\* Reference files as a vault can hold them before the command runs: as the
\* command created them, with a section added behind the citations, without
\* a citations section, with the back-link of note A in the section already,
\* with an empty section, and with the back-link of note A in another
\* section only.
ExistingNotes ==
    {"---\ncite-key: \"k\"\n---\n\n## Citations\n\n- [[B#^k-1]]![[B#^k-1]]",
     "---\ncite-key: \"k\"\n---\n\n## Citations\n\n- [[B#^k-1]]![[B#^k-1]]\n\n## Notes\nFine.\n",
     "Some notes.\n",
     "# Book\n\n## Citations\n\n- [[A#^k-1]]![[A#^k-1]]\n\n### Sub\nx\n",
     "## Citations",
     "\n## Citations\n\n\n## Notes\n- [[A#^k-1]]![[A#^k-1]]\n"}

InitExisting ==
    /\ pastes = 0
    /\ pastePc = [p \in Pasters |-> "idle"]
    /\ pasteFile = [p \in Pasters |-> Null]
    /\ pasteClipboard = [p \in Pasters |-> NoClipboard]
    /\ pasteParsed = [p \in Pasters |-> NotParsed]
    /\ blockId = [p \in Pasters |-> Null]
    /\ refNote = [p \in Pasters |-> Null]
    /\ notices = <<>>
    /\ editorContent = [n \in Notes |-> ""]
    /\ citationCounters = [n \in Notes |-> 0]
    /\ savedCounters = [n \in Notes |-> 0]
    /\ vaultFiles \in [RefPaths -> ExistingNotes \cup {Null}]

InitAppend == InitLink /\ InitClip /\ InitExisting

\* One run of the command at a time.
NextAppend ==
    \/ \E f \in Notes, plain \in PasteTexts : StartPaste(1, f, plain, NoHtml)
    \/ ReadTextResolved(1)
    \/ ReadTextRejected(1)
    \/ ReadResolved(1)
    \/ SaveResolved(1)
    \/ CreateResolved(1)
    \/ VaultReadResolved(1)
    \/ ModifyResolved(1)

SpecAppend == InitAppend /\ [][NextAppend]_vars

\* The text of s from `## Citations` up to the heading that follows it.
Section(s) ==
    LET i == IndexOf(s, "## Citations")
    IN  Substring(s, i, CitationsEnd(s, i))

SectionHas(s, link) == Includes(s, "## Citations") /\ Includes(Section(s), link)

\* The lines of s that are not blank, trimmed.
NonBlank(s) ==
    LET lines == SplitLines(s)
    IN  SelectSeq([i \in 1..Len(lines) |-> Trim(lines[i])], LAMBDA l : l # "")

\* Run p has appended to its reference file: modify() has resolved, and no
\* run has started since.
HasAppended(p) == pastePc[p] = "done" /\ refNote[p] # Null

\* C29: appendCitationToFile keeps what the file held and adds the back-link
\* once: when the citations section of the file read holds the back-link
\* already, the file is written back unchanged; otherwise the non-blank
\* lines of the file written are those of the file read, in their order,
\* with the line of the new back-link put into the citations section, the
\* section being added at the end when the file read has none.
C29_AppendKeeps ==
    \A p \in Pasters :
        HasAppended(p) =>
            LET old == refNote[p]
                new == vaultFiles[FilePath(pasteParsed[p].citation)]
                link == LinkBack(pasteFile[p], blockId[p], pasteParsed[p].page)
                o == NonBlank(old)
                n == NonBlank(new)
                sec == NonBlank(Section(new))
            IN  IF SectionHas(old, link)
                THEN new = old
                ELSE /\ SectionHas(new, link)
                     /\ Cardinality({j \in 1..Len(sec) : sec[j] = "- " \o link}) = 1
                     /\ IF Includes(old, "## Citations")
                        THEN \E k \in 1..Len(o) :
                                 n = SubSeq(o, 1, k) \o <<"- " \o link>> \o SubSeq(o, k + 1, Len(o))
                        ELSE n = o \o <<"## Citations", "- " \o link>>

\* The back-link of note A has been appended to a file that held the
\* back-link of note B and a section of notes: both back-links and the notes
\* are in the file.
C29_Witness ==
    /\ HasAppended(1)
    /\ CreatedFromB = NewFileContent(KCitation, LinkBack("B", BlockId(KCitation, 1), Null))
    /\ LinkFromA = LinkBack("A", BlockId(KCitation, 1), Null)
    /\ refNote[1] = CreatedFromB \o NotesSection
    /\ Includes(vaultFiles["k.md"], "- " \o LinkFromB \o "\n")
    /\ Includes(vaultFiles["k.md"], "- " \o LinkFromA \o NotesSection)

(***************************************************************************)
(* Two runs of the paste command under way together (checked under         *)
(* SpecRace).                                                              *)
(***************************************************************************)
\* The state a paste of "Grace.\n@b{k,}" into note B leaves behind: the
\* callout in B, the counter of B, and the reference file k.md.
CalloutInB == "> [!cite] Citation Reference\n> Grace.\n> \n> @b{k,}\n> \n> [[k.md|k]] ^k-1\n\n"

InitPasted ==
    /\ pastes = 0
    /\ pastePc = [p \in Pasters |-> "idle"]
    /\ pasteFile = [p \in Pasters |-> Null]
    /\ pasteClipboard = [p \in Pasters |-> NoClipboard]
    /\ pasteParsed = [p \in Pasters |-> NotParsed]
    /\ blockId = [p \in Pasters |-> Null]
    /\ refNote = [p \in Pasters |-> Null]
    /\ notices = <<"Created k.md">>
    /\ editorContent = [n \in Notes |-> IF n = "B" THEN CalloutInB ELSE ""]
    /\ citationCounters = [n \in Notes |-> IF n = "B" THEN 1 ELSE 0]
    /\ savedCounters = [n \in Notes |-> IF n = "B" THEN 1 ELSE 0]
    /\ vaultFiles = [f \in RefPaths |-> IF f = "k.md" THEN CreatedFromB ELSE Null]

InitRace == InitLink /\ InitClip /\ InitPasted

SpecRace == InitRace /\ [][NextPaste]_vars

\* Run p has found a citation and has come to its end: modify() or create()
\* has resolved, or create() has rejected.
Completed(p) == pastePc[p] \in {"done", "failed"} /\ blockId[p] # Null

\* The back-link run p has for its reference file.
BackLinkOf(p) == LinkBack(pasteFile[p], blockId[p], pasteParsed[p].page)

\* C30: when two runs of the paste command for the same reference file have
\* both come to their end, the file holds the back-links of both and the two
\* runs have different block IDs.
C30_AsStated ==
    \A p, q \in Pasters :
        (/\ p # q
         /\ Completed(p)
         /\ Completed(q)
         /\ FilePath(pasteParsed[p].citation) = FilePath(pasteParsed[q].citation)) =>
            LET file == vaultFiles[FilePath(pasteParsed[p].citation)]
            IN  /\ file # Null
                /\ Includes(file, BackLinkOf(p))
                /\ Includes(file, BackLinkOf(q))
                /\ blockId[p] # blockId[q]
====
